---- MODULE Spec2Model ----
(***************************************************************************)
(* Model of the recommendation engine of src/app.py                        *)
(* (class TrainingRecommendationSystem).                                   *)
(*                                                                         *)
(* Representation of Python values:                                        *)
(*   - str           : a TLA+ string; lower(), upper(), split(), replace() *)
(*                     and the `in` substring test are computed character  *)
(*                     by character;                                       *)
(*   - score (float) : an integer number of tenths (1.2 is 12);            *)
(*   - relevance     : an integer number of 1/10000 (2.34 is 23400), so    *)
(*                     that base x 1.5 x 1.3 x 1.2 is exact;               *)
(*   - dict          : a function (a record) when only get() is used, a    *)
(*                     sequence of [key, value] items in insertion order   *)
(*                     when the code iterates over it;                     *)
(*   - a value that may have the wrong type (an argument of the public     *)
(*     methods) carries its type: [type |-> "str", v |-> "Manager"];       *)
(*   - a call that may raise returns [raised |-> TRUE, exc |-> e] or       *)
(*     [raised |-> FALSE, value |-> v].                                    *)
(***************************************************************************)
EXTENDS Integers, Sequences, FiniteSets, TLC

VARIABLES
    competency_training_mapping,  \* self.competency_training_mapping
    division_mapping,             \* self.division_mapping
    training_database,            \* self.training_database (items in insertion order)
    hash_seed,                    \* the process's string-hash seed: fixes the iteration order of set()
    today,                        \* the day datetime.now() falls on
    request,                      \* the call under study: [op |-> method, ...arguments]
    result,                       \* what the latest call returned (NoResult before the first call)
    calls                         \* per concurrent caller: where its recommend_training call
                                  \* stands and the local variables of that call

vars == <<competency_training_mapping, division_mapping, training_database,
          hash_seed, today, request, result, calls>>

catalog == <<competency_training_mapping, division_mapping, training_database>>

-----------------------------------------------------------------------------
(* Python values *)

PyNone == [type |-> "NoneType"]

PyStr(s) == [type |-> "str", v |-> s]

PyFloat(x) == [type |-> "float", v |-> x]

PyDict(d) == [type |-> "dict", v |-> d]

Ok(v) == [raised |-> FALSE, value |-> v]

Raise(e) == [raised |-> TRUE, exc |-> e]

NoResult == [op |-> "none"]

\* d.get(key, default) on a dict modelled as a function
DictGet(d, key, default) == IF key \in DOMAIN d THEN d[key] ELSE default

Min(a, b) == IF a < b THEN a ELSE b

Max(a, b) == IF a > b THEN a ELSE b

-----------------------------------------------------------------------------
(* str methods *)

UpperChars == "ABCDEFGHIJKLMNOPQRSTUVWXYZ"

LowerChars == "abcdefghijklmnopqrstuvwxyz"

Whitespace == {" ", "\t", "\n"}

CharAt(s, i) == SubSeq(s, i, i)

ToLowerChar == [c \in {CharAt(UpperChars, i) : i \in 1..26} |->
                   CharAt(LowerChars, CHOOSE i \in 1..26 : CharAt(UpperChars, i) = c)]

ToUpperChar == [c \in {CharAt(LowerChars, i) : i \in 1..26} |->
                   CharAt(UpperChars, CHOOSE i \in 1..26 : CharAt(LowerChars, i) = c)]

RECURSIVE MapChars(_, _)
MapChars(f, s) ==
    IF Len(s) = 0 THEN ""
    ELSE LET c == CharAt(s, 1)
         IN (IF c \in DOMAIN f THEN f[c] ELSE c) \o MapChars(f, SubSeq(s, 2, Len(s)))

\* School names are strings. A list of schools may hold the value None in place
\* of a name; it is written NoneSchool, which is no name, and every str method
\* called on it is an AttributeError.
NoneSchool == "<None>"

IsStr(school) == school # NoneSchool

\* s.lower()
LowerOf(s) == MapChars(ToLowerChar, s)

\* s.upper()
Upper(s) == MapChars(ToUpperChar, s)

\* s.replace(" ", "_", 1): only the first space
ReplaceFirstSpace(s) ==
    IF \E i \in 1..Len(s) : CharAt(s, i) = " "
    THEN LET first == CHOOSE i \in 1..Len(s) :
                          CharAt(s, i) = " " /\ \A j \in 1..(i - 1) : CharAt(s, j) # " "
         IN SubSeq(s, 1, first - 1) \o "_" \o SubSeq(s, first + 1, Len(s))
    ELSE s

\* s.replace(" ", "_")
ReplaceSpaces(s) == MapChars([c \in {" "} |-> "_"], s)

\* needle in hay
IsSubstring(needle, hay) ==
    \E i \in 0..(Len(hay) - Len(needle)) : SubSeq(hay, i + 1, i + Len(needle)) = needle

\* every x with "x in s"
Substrings(s) == {SubSeq(s, i, j) : i \in 1..(Len(s) + 1), j \in 0..Len(s)}

\* s.split(): the maximal runs of non-whitespace characters, in order
RECURSIVE SplitFrom(_, _, _)
SplitFrom(s, i, word) ==
    IF i > Len(s) THEN (IF word = "" THEN <<>> ELSE <<word>>)
    ELSE IF CharAt(s, i) \in Whitespace
         THEN (IF word = "" THEN <<>> ELSE <<word>>) \o SplitFrom(s, i + 1, "")
         ELSE SplitFrom(s, i + 1, word \o CharAt(s, i))

Split(s) == SplitFrom(s, 1, "")

-----------------------------------------------------------------------------
(* The shipped catalog: setup_competency_mapping, setup_division_mapping,   *)
(* setup_training_database.                                                 *)

setup_competency_mapping ==
       "core_information_seeking" :> <<"Teknologi Informasi", "Strategi SDM">>
    @@ "core_resilience" :> <<"SDM", "Program Keahlian Khusus">>
    @@ "core_achievement_orientation" :> <<"Strategi SDM", "Financial Management for Leader">>
    @@ "core_concern_for_order" :> <<"Audit Internal & Manajemen Risiko", "Akuntansi & Keuangan">>
    @@ "core_organizational_commitment" :> <<"SDM", "Strategi SDM">>
    @@ "core_ethical_oriented" :> <<"Hukum", "Audit Internal dan Manajemen Risiko">>
    @@ "managerial_building_collaborative_relationship" :> <<"SDM", "Strategi Pemasaran">>
    @@ "managerial_business_savvy" :> <<"Agribusiness Productivity Institute", "Strategi SDM">>
    @@ "managerial_customer_focus" :> <<"Strategi Pemasaran", "Agribusiness Productivity Institute">>
    @@ "managerial_strategic_orientation" :> <<"Transformasi Strategis", "Strategi Transfrormasi">>
    @@ "managerial_sustainability_mindset" :> <<"Operasional Tanaman Tebu (On Farm)", "Operasional Tanaman Sawit (On Farm)">>
    @@ "managerial_execution_focused" :> <<"Operasional Pabrik Kelapa Sawit (Off Farm)", "Operasional Tanaman Karet (On Farm)">>
    @@ "managerial_digital_literate" :> <<"Teknologi Informasi", "Transformasi Strategis">>
    @@ "leadership_creativity_innovation" :> <<"Transformasi Strategis", "Strategi Transfrormasi">>
    @@ "leadership_transformational_leadership" :> <<"SDM", "Strategi SDM">>
    @@ "leadership_nurturing_empowering_people" :> <<"SDM", "Program Keahlian Khusus">>
    @@ "leadership_managing_equality_diversity" :> <<"SDM", "Hukum">>

setup_division_mapping ==
       "plantation" :> <<"Operasional Tanaman", "Agribusiness Productivity Institute">>
    @@ "factory" :> <<"Operasional Pabrik">>
    @@ "finance" :> <<"Akuntansi & Keuangan", "Financial Management">>
    @@ "hr" :> <<"SDM", "Strategi SDM">>
    @@ "it" :> <<"Teknologi Informasi">>
    @@ "procurement" :> <<"Pengadaan">>
    @@ "audit" :> <<"Audit Internal">>
    @@ "legal" :> <<"Hukum">>
    @@ "strategy" :> <<"Transformasi Strategis", "Strategi">>
    @@ "marketing" :> <<"Strategi Pemasaran">>

setup_training_database ==
    <<
      [key |-> "PL-2024-418", value |->
        [training_name |-> "PENDEKATAN LOGIKA MENGIDENTIFIKASI ANOMALI PRODUKSI",
         school |-> "Agribusiness Productivity Institute",
         target_division |-> "plantation", target_level |-> "ALL",
         duration_days |-> 3, cost |-> 6000000, job_family |-> "Tanaman",
         learning_objectives |-> <<"Integrasi geospike dan lingkungan di perkebunan", "Seasonal effect di tanaman sawit", "Prinsip dasar pemahaman data produksi", "Metode identifikasi anomali di perkebunan">>]],
      [key |-> "PL-2024-P0153", value |->
        [training_name |-> "Budidaya Tanaman Tebu - Persiapan Lahan & Kultivasi",
         school |-> "Operasional Tanaman Tebu (On Farm)",
         target_division |-> "plantation", target_level |-> "Operasional",
         duration_days |-> 5, cost |-> 5000000, job_family |-> "Tanaman",
         learning_objectives |-> <<"Teknik dasar kultivasi tebu", "Manajemen pengairan dan irigasi", "Pengendalian OPT tebu", "Sustainable farming practices">>]],
      [key |-> "PL-2024-P0154", value |->
        [training_name |-> "Operasional Tanaman Sawit - Advanced Plantation Management",
         school |-> "Operasional Tanaman Sawit (On Farm)",
         target_division |-> "plantation", target_level |-> "Manager",
         duration_days |-> 4, cost |-> 7500000, job_family |-> "Tanaman",
         learning_objectives |-> <<"Advanced plantation management techniques", "Yield optimization strategies", "Team leadership in plantation operations", "Environmental sustainability practices">>]],
      [key |-> "FC-2024-201", value |->
        [training_name |-> "Operasional Pabrik Kelapa Sawit - Process Optimization",
         school |-> "Operasional Pabrik Kelapa Sawit (Off Farm)",
         target_division |-> "factory", target_level |-> "ALL",
         duration_days |-> 6, cost |-> 8000000, job_family |-> "Pabrik",
         learning_objectives |-> <<"Advanced palm oil processing techniques", "Quality control and assurance", "Equipment maintenance and optimization", "Safety protocols and procedures">>]],
      [key |-> "FC-2024-202", value |->
        [training_name |-> "Manufacturing Excellence & Lean Production",
         school |-> "Operasional Pabrik Kelapa Sawit (Off Farm)",
         target_division |-> "factory", target_level |-> "Supervisor",
         duration_days |-> 4, cost |-> 6500000, job_family |-> "Pabrik",
         learning_objectives |-> <<"Lean manufacturing principles", "Continuous improvement methodologies", "Team leadership in manufacturing", "Waste reduction techniques">>]],
      [key |-> "FN-2024-301", value |->
        [training_name |-> "Financial Management for Leaders",
         school |-> "Financial Management for Leader (Jakarta)",
         target_division |-> "finance", target_level |-> "Manager",
         duration_days |-> 5, cost |-> 9000000, job_family |-> "Keuangan",
         learning_objectives |-> <<"Strategic financial planning", "Investment analysis and decision making", "Financial risk management", "Budget planning and control", "Leadership in finance function">>]],
      [key |-> "FN-2024-302", value |->
        [training_name |-> "Advanced Accounting & Financial Reporting",
         school |-> "Akuntansi & Keuangan",
         target_division |-> "finance", target_level |-> "ALL",
         duration_days |-> 4, cost |-> 5500000, job_family |-> "Keuangan",
         learning_objectives |-> <<"Advanced accounting principles", "Financial reporting standards", "Digital accounting systems", "Compliance and regulatory requirements">>]],
      [key |-> "HR-2024-401", value |->
        [training_name |-> "Strategic Human Resource Management",
         school |-> "SDM",
         target_division |-> "hr", target_level |-> "Manager",
         duration_days |-> 5, cost |-> 7000000, job_family |-> "SDM",
         learning_objectives |-> <<"Strategic HR planning and execution", "Talent management and development", "Employee engagement strategies", "Performance management systems", "Diversity and inclusion practices">>]],
      [key |-> "HR-2024-402", value |->
        [training_name |-> "Employee Development & Training Design",
         school |-> "Program Keahlian Khusus",
         target_division |-> "hr", target_level |-> "ALL",
         duration_days |-> 4, cost |-> 5000000, job_family |-> "SDM",
         learning_objectives |-> <<"Training needs analysis", "Learning program design", "Adult learning principles", "Training evaluation methods">>]],
      [key |-> "IT-2024-501", value |->
        [training_name |-> "Digital Transformation & Technology Leadership",
         school |-> "Teknologi Informasi",
         target_division |-> "it", target_level |-> "Manager",
         duration_days |-> 6, cost |-> 10000000, job_family |-> "IT",
         learning_objectives |-> <<"Digital transformation strategies", "IT governance and management", "Emerging technology evaluation", "Cybersecurity leadership", "Innovation management in IT">>]],
      [key |-> "IT-2024-502", value |->
        [training_name |-> "Information Systems & Data Analytics",
         school |-> "Teknologi Informasi",
         target_division |-> "it", target_level |-> "ALL",
         duration_days |-> 5, cost |-> 7500000, job_family |-> "IT",
         learning_objectives |-> <<"Database design and management", "Data analytics and visualization", "Business intelligence systems", "System integration techniques">>]],
      [key |-> "PR-2024-601", value |->
        [training_name |-> "Strategic Procurement & Supply Chain Management",
         school |-> "Pengadaan",
         target_division |-> "procurement", target_level |-> "Manager",
         duration_days |-> 5, cost |-> 8000000, job_family |-> "Pengadaan",
         learning_objectives |-> <<"Strategic sourcing methodologies", "Supplier relationship management", "Contract negotiation and management", "Supply chain optimization", "Risk management in procurement">>]],
      [key |-> "PR-2024-602", value |->
        [training_name |-> "Procurement Operations & Vendor Management",
         school |-> "Pengadaan",
         target_division |-> "procurement", target_level |-> "ALL",
         duration_days |-> 4, cost |-> 5500000, job_family |-> "Pengadaan",
         learning_objectives |-> <<"Procurement processes and procedures", "Vendor evaluation and selection", "Cost analysis and budgeting", "Compliance and ethics in procurement">>]],
      [key |-> "AD-2024-701", value |->
        [training_name |-> "Internal Audit & Risk Management Leadership",
         school |-> "Audit Internal & Manajemen Risiko",
         target_division |-> "audit", target_level |-> "Manager",
         duration_days |-> 6, cost |-> 9500000, job_family |-> "Audit",
         learning_objectives |-> <<"Advanced internal auditing techniques", "Enterprise risk management", "Audit leadership and team management", "Regulatory compliance frameworks", "Fraud detection and prevention">>]],
      [key |-> "AD-2024-702", value |->
        [training_name |-> "Risk Assessment & Control Systems",
         school |-> "Audit Internal dan Manajemen Risiko",
         target_division |-> "audit", target_level |-> "ALL",
         duration_days |-> 4, cost |-> 6000000, job_family |-> "Audit",
         learning_objectives |-> <<"Risk identification and assessment", "Internal control evaluation", "Audit documentation and reporting", "Technology-assisted audit techniques">>]],
      [key |-> "LG-2024-801", value |->
        [training_name |-> "Corporate Law & Regulatory Compliance",
         school |-> "Hukum",
         target_division |-> "legal", target_level |-> "ALL",
         duration_days |-> 5, cost |-> 7500000, job_family |-> "Hukum",
         learning_objectives |-> <<"Corporate governance principles", "Regulatory compliance management", "Contract law and negotiations", "Employment law and regulations", "Business ethics and compliance">>]],
      [key |-> "ST-2024-901", value |->
        [training_name |-> "Strategic Transformation & Change Management",
         school |-> "Transformasi Strategis",
         target_division |-> "strategy", target_level |-> "Manager",
         duration_days |-> 7, cost |-> 12000000, job_family |-> "Strategi",
         learning_objectives |-> <<"Strategic planning and execution", "Change management methodologies", "Digital transformation strategies", "Innovation management", "Organizational development">>]],
      [key |-> "ST-2024-902", value |->
        [training_name |-> "Marketing Strategy & Customer Excellence",
         school |-> "Strategi Pemasaran",
         target_division |-> "marketing", target_level |-> "ALL",
         duration_days |-> 4, cost |-> 6500000, job_family |-> "Pemasaran",
         learning_objectives |-> <<"Market analysis and segmentation", "Customer relationship management", "Brand management and positioning", "Digital marketing strategies">>]],
      [key |-> "GM-2024-001", value |->
        [training_name |-> "Executive Leadership Development Program",
         school |-> "Strategi SDM",
         target_division |-> "ALL", target_level |-> "Senior Manager",
         duration_days |-> 10, cost |-> 15000000, job_family |-> "Umum",
         learning_objectives |-> <<"Executive leadership skills", "Strategic thinking and planning", "Organizational transformation", "High-performance team building", "Stakeholder management", "Innovation and change leadership">>]]
    >>

\* the values of a list or of a table
Range(f) == {f[x] : x \in DOMAIN f}

\* the school names a mapping lists, over all its keys
NamesOf(mapping) == UNION {Range(mapping[k]) : k \in DOMAIN mapping}

\* the names, and the names of the generic trainings made from them
WithGenericNames(schools) == schools \cup {"Training Program for " \o s : s \in schools}

\* the strings of the shipped catalog
CatalogStrings ==
    UNION {{item.value.school, item.value.training_name, item.value.target_division} :
           item \in Range(setup_training_database)}
    \cup WithGenericNames(NamesOf(setup_competency_mapping))
    \cup NamesOf(setup_division_mapping)

\* s.lower(), computed once for the strings of the catalog
LowerOfCatalogString == [s \in CatalogStrings |-> LowerOf(s)]

LowerFrom(table, s) == IF s \in DOMAIN table THEN table[s] ELSE LowerOf(s)

\* s.lower()
Lower(s) == LowerFrom(LowerOfCatalogString, s)

\* the substrings of the lower-cased strings of the catalog, computed once
SubstringsOfCatalogString == [s \in Range(LowerOfCatalogString) |-> Substrings(s)]

ContainsFrom(table, needle, hay) ==
    IF hay \in DOMAIN table THEN needle \in table[hay] ELSE IsSubstring(needle, hay)

\* needle in hay
Contains(needle, hay) == ContainsFrom(SubstringsOfCatalogString, needle, hay)

\* any(keyword in name.lower() for keyword in keywords)
ContainsAny(keywords, name) ==
    \E k \in 1..Len(keywords) : Contains(keywords[k], Lower(name))

-----------------------------------------------------------------------------
(* Ordered containers *)

\* list(d.items()) after d[key] = value: an existing key keeps its position
DictSetItem(items, key, value) ==
    IF \E i \in 1..Len(items) : items[i].key = key
    THEN [i \in 1..Len(items) |->
             IF items[i].key = key THEN [key |-> key, value |-> value] ELSE items[i]]
    ELSE Append(items, [key |-> key, value |-> value])

\* the distinct elements of a list, in order of first occurrence
RECURSIVE Distinct(_, _)
Distinct(s, seen) ==
    IF s = <<>> THEN <<>>
    ELSE IF Head(s) \in seen THEN Distinct(Tail(s), seen)
         ELSE <<Head(s)>> \o Distinct(Tail(s), seen \cup {Head(s)})

RemoveAt(s, i) == SubSeq(s, 1, i - 1) \o SubSeq(s, i + 1, Len(s))

\* the seed-th arrangement of a list (seed \in 0 .. Len(s)! - 1 gives them all)
RECURSIVE Arrange(_, _)
Arrange(s, seed) ==
    IF s = <<>> THEN <<>>
    ELSE LET i == (seed % Len(s)) + 1
         IN <<s[i]>> \o Arrange(RemoveAt(s, i), seed \div Len(s))

\* list(set(s)): the distinct elements, in the order the string hashes of this
\* process put them
ListOfSet(s) == Arrange(Distinct(s, {}), hash_seed)

\* a < b for sort keys: numbers, or tuples of numbers compared lexicographically
RECURSIVE KeyLess(_, _)
KeyLess(a, b) ==
    IF a = <<>> \/ b = <<>> THEN a = <<>> /\ b # <<>>
    ELSE IF Head(a) # Head(b) THEN Head(a) < Head(b)
         ELSE KeyLess(Tail(a), Tail(b))

\* insertion that ignores the keys
InsertLast(sorted, x) == Append(sorted, x)

\* stable insertion of x: after every element whose key is not greater
RECURSIVE InsertSorted(_, _)
InsertSorted(sorted, x) ==
    IF sorted = <<>> THEN <<x>>
    ELSE IF KeyLess(x.key, Head(sorted).key) THEN <<x>> \o sorted
         ELSE <<Head(sorted)>> \o InsertSorted(Tail(sorted), x)

\* a sort that inserts from the last element to the first: ascending in the
\* key, elements of equal keys in reverse order
RECURSIVE SortKeyedFromLast(_)
SortKeyedFromLast(keyed) ==
    IF keyed = <<>> THEN <<>>
    ELSE InsertSorted(SortKeyedFromLast(Tail(keyed)), Head(keyed))

RECURSIVE SortKeyed(_)
SortKeyed(keyed) ==
    IF keyed = <<>> THEN <<>>
    ELSE InsertSorted(SortKeyed(SubSeq(keyed, 1, Len(keyed) - 1)), keyed[Len(keyed)])

\* sorted(s, key=Key) and s.sort(key=Key): stable, ascending in the key
SortBy(s, Key(_)) ==
    LET keyed == [i \in 1..Len(s) |-> [key |-> Key(s[i]), item |-> s[i]]]
        sorted == SortKeyed(keyed)
    IN [i \in 1..Len(s) |-> sorted[i].item]

\* s[:n]
Take(s, n) == SubSeq(s, 1, Min(n, Len(s)))

\* sum(s)
RECURSIVE Sum(_)
Sum(s) == IF s = <<>> THEN 0 ELSE Head(s) + Sum(Tail(s))

-----------------------------------------------------------------------------
(* identify_priority_areas *)

PriorityAreasCut == 5

\* float(score)
ToFloat(score) == IF score.type = "float" THEN Ok(score.v) ELSE Raise("TypeError")

\* the loop without the prefix: all_scores[competency] = float(score)
RECURSIVE MergeScoresUnprefixed(_, _, _)
MergeScoresUnprefixed(all_scores, prefix, items) ==
    IF items = <<>> THEN Ok(all_scores)
    ELSE LET f == ToFloat(Head(items).value)
         IN IF f.raised THEN f
            ELSE MergeScoresUnprefixed(DictSetItem(all_scores, Head(items).key, f.value),
                                       prefix, Tail(items))

\* one "for competency, score in group.items(): all_scores[prefix + competency] = float(score)"
RECURSIVE MergeScores(_, _, _)
MergeScores(all_scores, prefix, items) ==
    IF items = <<>> THEN Ok(all_scores)
    ELSE LET f == ToFloat(Head(items).value)
         IN IF f.raised THEN f
            ELSE MergeScores(DictSetItem(all_scores, prefix \o Head(items).key, f.value),
                             prefix, Tail(items))

\* assessment_data[group] followed by the loop: a missing group is a fault
MergeGroupRequired(acc, assessment_data, group, prefix) ==
    IF acc.raised THEN acc
    ELSE IF group \notin DOMAIN assessment_data.v THEN Raise("KeyError")
         ELSE IF assessment_data.v[group].type # "dict" THEN Raise("AttributeError")
              ELSE MergeScores(acc.value, prefix, assessment_data.v[group].v)

\* assessment_data.get(group, {}) followed by the loop over its items
MergeGroup(acc, assessment_data, group, prefix) ==
    IF acc.raised THEN acc
    ELSE LET scores == DictGet(assessment_data.v, group, PyDict(<<>>))
         IN IF scores.type # "dict" THEN Raise("AttributeError")
            ELSE MergeScores(acc.value, prefix, scores.v)

identify_priority_areas(assessment_data) ==
    IF assessment_data.type # "dict" THEN Raise("AttributeError")
    ELSE LET core == MergeGroup(Ok(<<>>), assessment_data, "core_competency_scores", "core_")
             managerial == MergeGroup(core, assessment_data,
                                      "managerial_competency_scores", "managerial_")
             all_scores == MergeGroup(managerial, assessment_data,
                                      "leadership_competency_scores", "leadership_")
         IN IF all_scores.raised THEN all_scores
            ELSE Ok(Take(SortBy(all_scores.value, LAMBDA x : <<x.value>>), PriorityAreasCut))

-----------------------------------------------------------------------------
(* get_priority_level, _get_timeline, keyword tests *)

\* the bands with <= for <: a boundary score falls in the lower band
get_priority_level_inclusive(score) ==
    IF score <= 20 THEN 1
    ELSE IF score <= 30 THEN 2
    ELSE IF score <= 35 THEN 3
    ELSE 4

get_priority_level(score) ==
    IF score < 20 THEN 1
    ELSE IF score < 30 THEN 2
    ELSE IF score < 35 THEN 3
    ELSE 4

get_timeline(priority_level) ==
    CASE priority_level = 1 -> "Immediate (within 1 month)"
      [] priority_level = 2 -> "High Priority (within 3 months)"
      [] priority_level = 3 -> "Medium Priority (within 6 months)"
      [] priority_level = 4 -> "Low Priority (within 12 months)"
      [] OTHER -> "To be scheduled"

mgmt_keywords == <<"strategi", "leadership", "management", "manajemen", "strategic", "executive">>

advanced_keywords == <<"advanced", "strategic", "transformasi", "leadership", "executive">>

is_management_training(training_name) ==
    IF training_name = "" THEN FALSE ELSE ContainsAny(mgmt_keywords, training_name)

is_advanced_training(training_name) ==
    IF training_name = "" THEN FALSE ELSE ContainsAny(advanced_keywords, training_name)

-----------------------------------------------------------------------------
(* filter_by_context *)

management_keywords == <<"strategic", "leadership", "management", "manajemen", "transformasi">>

\* the junior rule with the keyword 'strategi' for 'strategic'
junior_excluded_with_strategi == <<"advanced", "strategi", "transformasi", "executive">>

junior_excluded_keywords == <<"advanced", "strategic", "transformasi", "executive">>

senior_added_keywords == <<"strategic", "leadership", "transformasi">>

IsManagerial(position) ==
    Contains("manager", Lower(position)) \/ Contains("supervisor", Lower(position))

\* [t for t in trainings if any(keyword in t.lower() for keyword in keywords)]
WithKeyword(trainings, keywords) ==
    SelectSeq(trainings, LAMBDA t : ContainsAny(keywords, t))

WithoutKeyword(trainings, keywords) ==
    SelectSeq(trainings, LAMBDA t : ~ContainsAny(keywords, t))

\* the division rule adding the schools of the division themselves
DivisionTrainings(trainings, division_trainings) == division_trainings

\* [t for t in trainings if any(dt.lower() in t.lower() for dt in division_trainings)]
DivisionMatches(trainings, division_trainings) ==
    SelectSeq(trainings,
              LAMBDA t : \E k \in 1..Len(division_trainings) :
                             Contains(Lower(division_trainings[k]), Lower(t)))

\* "if position is managerial: filtered.extend(management_trainings)"
ManagementTrainings(trainings, position) ==
    IF IsManagerial(position) THEN WithKeyword(trainings, management_keywords) ELSE <<>>

\* the junior rule applied to the candidates alone: what the position rule and
\* the division rule added stays
ByExperienceOfCandidates(trainings, accumulated, experience) ==
    IF experience = "junior"
    THEN WithoutKeyword(trainings, junior_excluded_keywords)
             \o SubSeq(accumulated, Len(trainings) + 1, Len(accumulated))
    ELSE IF experience = "senior"
         THEN accumulated \o WithKeyword(trainings, senior_added_keywords)
         ELSE accumulated

\* the experience rule applied to the list accumulated so far (lines 529-536)
ByExperience(trainings, accumulated, experience) ==
    IF experience = "junior"
    THEN WithoutKeyword(accumulated, junior_excluded_keywords)
    ELSE IF experience = "senior"
         THEN accumulated \o WithKeyword(trainings, senior_added_keywords)
         ELSE accumulated

\* a rule of the filter calls t.lower() on every candidate: the position rule
\* of a manager, the division rule of a known division, the junior and senior rules
LowersCandidates(position, division, experience) ==
    \/ IsManagerial(position)
    \/ DictGet(division_mapping, Lower(division), <<>>) # <<>>
    \/ Lower(experience) \in {"junior", "senior"}

filter_by_context(trainings, position, division, experience) ==
    IF position.type # "str" \/ division.type # "str" \/ experience.type # "str"
    THEN Raise("AttributeError")
    ELSE IF /\ \E i \in 1..Len(trainings) : ~IsStr(trainings[i])
            /\ LowersCandidates(position.v, division.v, experience.v)
    THEN Raise("AttributeError")
    ELSE Ok(ListOfSet(
             ByExperience(trainings,
                          trainings
                              \o ManagementTrainings(trainings, position.v)
                              \o DivisionMatches(trainings,
                                                 DictGet(division_mapping, Lower(division.v),
                                                         <<>>)),
                          Lower(experience.v))))

-----------------------------------------------------------------------------
(* calculate_relevance_score *)

RelevanceFloor == 1000

RelevanceCeiling == 100000

\* the three multipliers, in tenths
PositionMultiplier(current_position, training_name) ==
    IF IsManagerial(current_position) /\ is_management_training(training_name)
    THEN 15 ELSE 10

\* the division multiplier without the wildcard 'all'
DivisionMultiplierExact(target_division, employee_division) ==
    IF target_division = employee_division THEN 13 ELSE 10

DivisionMultiplier(target_division, employee_division) ==
    IF target_division = employee_division \/ target_division = "all" THEN 13 ELSE 10

ExperienceMultiplier(experience_level, training_name) ==
    IF experience_level = "junior"
    THEN (IF ~is_advanced_training(training_name) THEN 12 ELSE 10)
    ELSE IF experience_level = "senior"
         THEN (IF is_advanced_training(training_name) THEN 12 ELSE 10)
         ELSE 10

\* the clamp without its upper bound
ClampBelowOnly(final_score) == Max(RelevanceFloor, final_score)

\* max(0.1, min(10.0, final_score))
Clamp(final_score) == Max(RelevanceFloor, Min(RelevanceCeiling, final_score))

calculate_relevance_score(competency, current_score, training_details, employee_data) ==
    LET position == DictGet(employee_data.v, "current_position", PyStr(""))
        division == DictGet(employee_data.v, "division", PyStr(""))
        experience == DictGet(employee_data.v, "experience_level", PyStr(""))
        training_name == DictGet(training_details, "training_name", "")
    IN IF position.type # "str" \/ division.type # "str" \/ experience.type # "str"
       THEN Raise("AttributeError")
       ELSE Ok(Clamp((50 - current_score)
                     * PositionMultiplier(position.v, training_name)
                     * DivisionMultiplier(Lower(DictGet(training_details, "target_division", "")),
                                          Lower(division.v))
                     * ExperienceMultiplier(Lower(experience.v), training_name)))

-----------------------------------------------------------------------------
(* get_training_details *)

GenericDurationDays == 3

GenericCost == 5000000

\* {**details, 'training_id': training_id}: a new dict, the catalog record is not touched
WithTrainingId(details, training_id) ==
    [k \in DOMAIN details \cup {"training_id"} |->
        IF k = "training_id" THEN training_id ELSE details[k]]

\* details.get('school', '').lower()
SchoolOf(item) == Lower(DictGet(item.value, "school", ""))

\* no template: the last tier gives up
NoGenericTraining(training_school) == PyNone

\* the generic training template of the last tier
GenericTraining(training_school) ==
    [training_id |-> "GENERIC_" \o Upper(ReplaceSpaces(training_school)),
     training_name |-> "Training Program for " \o training_school,
     school |-> training_school,
     target_division |-> "general",
     target_level |-> "ALL",
     duration_days |-> GenericDurationDays,
     cost |-> GenericCost,
     learning_objectives |-> <<"Competency development", "Skill enhancement">>,
     job_family |-> "General"]

\* [d for d in db if training_school.lower() in d.get('school', '').lower()]
DirectMatches(db, lowered) ==
    SelectSeq(db, LAMBDA item : Contains(lowered, SchoolOf(item)))

\* a resolver without the word tier: no partial match is looked for
NoPartialMatches(db, school_words) == <<>>

\* [d for d in db if any(word in d.get('school', '').lower() for word in school_words)]
PartialMatches(db, school_words) ==
    SelectSeq(db, LAMBDA item : \E w \in 1..Len(school_words) :
                                    Contains(school_words[w], SchoolOf(item)))

\* "if matches: training_id, details = matches[0]; return {**details, 'training_id': ...}"
FirstOr(matches, otherwise) ==
    IF matches # <<>> THEN WithTrainingId(matches[1].value, matches[1].key) ELSE otherwise

\* the word tier tried before the substring tier
ResolveWordsFirst(db, training_school, lowered) ==
    FirstOr(PartialMatches(db, Split(lowered)),
            FirstOr(DirectMatches(db, lowered), GenericTraining(training_school)))

\* the three tiers: substring match, word match, generic template
Resolve(db, training_school, lowered) ==
    FirstOr(DirectMatches(db, lowered),
            FirstOr(PartialMatches(db, Split(lowered)), GenericTraining(training_school)))

\* the resolver writing the id into the catalog record (details['training_id'] = ...)
\* and keeping the generic record it makes
get_training_details_in_place(db, training_school) ==
    LET details == Resolve(db, training_school, Lower(training_school))
    IN [returns |-> details,
        training_database |->
            IF \E i \in 1..Len(db) : db[i].key = details.training_id
            THEN [i \in 1..Len(db) |->
                     IF db[i].key = details.training_id
                     THEN [key |-> db[i].key, value |-> details] ELSE db[i]]
            ELSE Append(db, [key |-> details.training_id, value |-> details])]

\* returns: the value returned; training_database: self.training_database after the call
\* "except Exception: return None" (lines 603-605) for training_school.lower()
\* of a school that is not a string
get_training_details(db, training_school) ==
    [returns |-> IF IsStr(training_school)
                 THEN Resolve(db, training_school, Lower(training_school))
                 ELSE PyNone,
     training_database |-> db]

-----------------------------------------------------------------------------
(* recommend_training and _build_response *)

TopRecommendations == 3

ExpectedImprovementCap == 20

TargetScoreCap == 50

\* round(x, 2) of a relevance score: from 1/10000 to 1/100
Round2(x) == (x + 50) \div 100

\* the dict with the whole distance to 5.0 as expected improvement
RecommendationUncapped(competency, score, training_details, relevance_score) ==
    [competency_gap |-> competency,
     current_score |-> score,
     training_details |-> training_details,
     relevance_score |-> relevance_score,
     priority_level |-> get_priority_level(score),
     expected_improvement |-> 50 - score,
     timeline |-> get_timeline(get_priority_level(score))]

\* the dict built at lines 641-649
Recommendation(competency, score, training_details, relevance_score) ==
    [competency_gap |-> competency,
     current_score |-> score,
     training_details |-> training_details,
     relevance_score |-> relevance_score,
     priority_level |-> get_priority_level(score),
     expected_improvement |-> Min(ExpectedImprovementCap, 50 - score),
     timeline |-> get_timeline(get_priority_level(score))]

\* recommendations.append(...) at lines 641-649, or the fault of the scorer
Scored(acc, competency, score, found, relevance) ==
    IF relevance.raised
    THEN [raised |-> TRUE, exc |-> relevance.exc,
          training_database |-> found.training_database]
    ELSE [raised |-> FALSE,
          recommendations |->
              Append(acc.recommendations,
                     Recommendation(competency, score, found.returns, relevance.value)),
          training_database |-> found.training_database]

\* the inner loop giving up the request at a school without details
ScoreTrainingOrAbort(acc, competency, score, found, assessment_data) ==
    IF found.returns = PyNone
    THEN [raised |-> TRUE, exc |-> "AttributeError",
          training_database |-> found.training_database]
    ELSE Scored(acc, competency, score, found,
                calculate_relevance_score(competency, score, found.returns,
                                          assessment_data))

\* the body of the inner loop for one school (lines 633-651): "if training_details:"
ScoreTraining(acc, competency, score, found, assessment_data) ==
    IF found.returns = PyNone
    THEN [acc EXCEPT !.training_database = found.training_database]
    ELSE Scored(acc, competency, score, found,
                calculate_relevance_score(competency, score, found.returns,
                                          assessment_data))

\* "for training_school in filtered_trainings" (lines 632-651); acc carries the
\* recommendations list and self.training_database
RECURSIVE ScoreTrainings(_, _, _, _, _)
ScoreTrainings(acc, competency, score, filtered_trainings, assessment_data) ==
    IF acc.raised \/ filtered_trainings = <<>> THEN acc
    ELSE ScoreTrainings(
             ScoreTraining(acc, competency, score,
                           get_training_details(acc.training_database,
                                                Head(filtered_trainings)),
                           assessment_data),
             competency, score, Tail(filtered_trainings), assessment_data)

\* the filtered list scored, or the fault of the filter
ScoreFiltered(acc, competency, score, filtered_trainings, assessment_data) ==
    IF filtered_trainings.raised
    THEN [raised |-> TRUE, exc |-> filtered_trainings.exc,
          training_database |-> acc.training_database]
    ELSE ScoreTrainings(acc, competency, score, filtered_trainings.value, assessment_data)

\* the outer loop aborting the request at a competency without schools
ScoreAreaOrAbort(acc, competency, score, potential_trainings, assessment_data) ==
    IF potential_trainings = <<>>
    THEN [raised |-> TRUE, exc |-> "KeyError", training_database |-> acc.training_database]
    ELSE ScoreFiltered(acc, competency, score,
                       filter_by_context(
                           potential_trainings,
                           DictGet(assessment_data.v, "current_position", PyStr("")),
                           DictGet(assessment_data.v, "division", PyStr("")),
                           DictGet(assessment_data.v, "experience_level", PyStr(""))),
                       assessment_data)

\* the body of the outer loop for one priority area (lines 617-651):
\* "if not potential_trainings: continue"
ScoreArea(acc, competency, score, potential_trainings, assessment_data) ==
    IF potential_trainings = <<>> THEN acc
    ELSE ScoreFiltered(acc, competency, score,
                       filter_by_context(
                           potential_trainings,
                           DictGet(assessment_data.v, "current_position", PyStr("")),
                           DictGet(assessment_data.v, "division", PyStr("")),
                           DictGet(assessment_data.v, "experience_level", PyStr(""))),
                       assessment_data)

\* "for competency, score in priority_areas" (lines 616-651)
RECURSIVE ForEachPriorityArea(_, _, _)
ForEachPriorityArea(acc, priority_areas, assessment_data) ==
    IF acc.raised \/ priority_areas = <<>> THEN acc
    ELSE ForEachPriorityArea(
             ScoreArea(acc, Head(priority_areas).key, Head(priority_areas).value,
                       DictGet(competency_training_mapping, Head(priority_areas).key, <<>>),
                       assessment_data),
             Tail(priority_areas), assessment_data)

\* step 2 of recommend_training over the priority areas of step 1
Collected(priority_areas, assessment_data) ==
    IF priority_areas.raised
    THEN [raised |-> TRUE, exc |-> priority_areas.exc,
          training_database |-> training_database]
    ELSE ForEachPriorityArea([raised |-> FALSE, recommendations |-> <<>>,
                              training_database |-> training_database],
                             priority_areas.value, assessment_data)

\* steps 1 and 2 of recommend_training: the list "recommendations" before it is sorted
CollectRecommendations(assessment_data) ==
    Collected(identify_priority_areas(assessment_data), assessment_data)

\* the response of the two "except Exception" handlers (lines 662-667 and 725-730)
ErrorResponse(exc, assessment_data) ==
    [error |-> exc,
     employee_id |-> DictGet(assessment_data.v, "employee_id", PyStr("Unknown")),
     recommendations |-> <<>>,
     summary |-> [total_recommendations |-> 0, total_estimated_cost |-> 0,
                  total_estimated_duration |-> 0]]

\* the entry with the priority level of its gap for its rank
FormattedRecommendationByLevel(i, rec) ==
    [priority |-> rec.priority_level,
     competency_gap |-> rec.competency_gap,
     current_score |-> rec.current_score,
     target_score |-> Min(TargetScoreCap, rec.current_score + rec.expected_improvement),
     recommended_training |-> rec.training_details,
     relevance_score |-> Round2(rec.relevance_score),
     expected_improvement |-> rec.expected_improvement,
     timeline |-> rec.timeline]

\* the entry built at lines 702-711
FormattedRecommendation(i, rec) ==
    [priority |-> i,
     competency_gap |-> rec.competency_gap,
     current_score |-> rec.current_score,
     target_score |-> Min(TargetScoreCap, rec.current_score + rec.expected_improvement),
     recommended_training |-> rec.training_details,
     relevance_score |-> Round2(rec.relevance_score),
     expected_improvement |-> rec.expected_improvement,
     timeline |-> rec.timeline]

\* the bucket of every recommendation, whatever its level
GapsOfAnyLevel(recommendations, levels) ==
    [i \in 1..Len(recommendations) |-> recommendations[i].competency_gap]

\* [rec.competency_gap for the entries of the given priority levels], in rank order
GapsOfLevels(recommendations, levels) ==
    LET chosen == SelectSeq(recommendations, LAMBDA rec : rec.priority_level \in levels)
    IN [i \in 1..Len(chosen) |-> chosen[i].competency_gap]

\* the cost total taken over the durations
TotalCostOfDurations(recommendations) ==
    Sum([i \in 1..Len(recommendations) |-> recommendations[i].training_details.duration_days])

\* sum(rec['training_details']['cost'] for rec in recommendations if rec['training_details'])
TotalCost(recommendations) ==
    Sum([i \in 1..Len(recommendations) |-> recommendations[i].training_details.cost])

\* sum(rec['training_details']['duration_days'] for rec in recommendations if ...)
TotalDuration(recommendations) ==
    Sum([i \in 1..Len(recommendations) |-> recommendations[i].training_details.duration_days])

build_response(assessment_data, recommendations) ==
    IF \E i \in 1..Len(recommendations) :
           {"cost", "duration_days"} \ DOMAIN recommendations[i].training_details # {}
    THEN ErrorResponse("KeyError", assessment_data)
    ELSE [employee_id |-> DictGet(assessment_data.v, "employee_id", PyStr("Unknown")),
          assessment_date |-> today,
          recommendations |->
              [i \in 1..Len(recommendations) |-> FormattedRecommendation(i, recommendations[i])],
          development_path |->
              [critical |-> GapsOfLevels(recommendations, {1}),
               high_priority |-> GapsOfLevels(recommendations, {2}),
               medium_priority |-> GapsOfLevels(recommendations, {3, 4})],
          summary |->
              [total_recommendations |-> Len(recommendations),
               total_estimated_cost |-> TotalCost(recommendations),
               total_estimated_duration |-> TotalDuration(recommendations)]]

\* the key without the minus sign: ascending relevance
RankKeyAscendingRelevance(rec) == <<rec.priority_level, rec.relevance_score>>

\* key=lambda x: (x['priority_level'], -x['relevance_score'])
RankKey(rec) == <<rec.priority_level, 0 - rec.relevance_score>>

\* the sort without the slice [:3]
top_recommendations_unsliced(recommendations) == SortBy(recommendations, RankKey)

\* recommendations.sort(key=...); top_recommendations = recommendations[:3]
top_recommendations(recommendations) ==
    Take(SortBy(recommendations, RankKey), TopRecommendations)

\* steps 3 and 4 of recommend_training, and its except handler (lines 653-667)
Respond(assessment_data, collected) ==
    [returns |->
         IF ~collected.raised
         THEN Ok(build_response(assessment_data,
                                top_recommendations(collected.recommendations)))
         ELSE IF assessment_data.type # "dict"
              THEN Raise("AttributeError")
              ELSE Ok(ErrorResponse(collected.exc, assessment_data)),
     recommendations |-> IF collected.raised THEN <<>> ELSE collected.recommendations,
     training_database |-> collected.training_database]

\* returns: Ok(response), or Raise when the except handler itself faults;
\* recommendations: the local list of that name as it is before the sort;
\* training_database: self.training_database after the call
recommend_training(assessment_data) ==
    Respond(assessment_data, CollectRecommendations(assessment_data))

-----------------------------------------------------------------------------
(* Inputs *)

MaxGroupSize == 2

MaxScore == 60

MaxSeed == 1

MaxDay == 2

\* the competency lists of the assessment form (lines 943, 964, 985)
core_competencies ==
    <<"information_seeking", "resilience", "achievement_orientation", "concern_for_order",
      "organizational_commitment", "ethical_oriented">>

managerial_competencies ==
    <<"building_collaborative_relationship", "business_savvy", "customer_focus",
      "strategic_orientation", "sustainability_mindset", "execution_focused",
      "digital_literate">>

leadership_competencies ==
    <<"creativity_innovation", "transformational_leadership", "nurturing_empowering_people",
      "managing_equality_diversity">>

\* The scores given to the competencies of an assessment, in tenths.  For these
\* scores no product base x multipliers falls on an exact half of a hundredth and
\* no two products are equal as reals but different as floats, so round() and the
\* order of the sort are those of the float arithmetic.
AssessmentScores == {12, 30}

\* the score dicts of one group: the first n competencies of the form, each scored
ScoreDicts(competencies) ==
    UNION {{[i \in 1..n |-> [key |-> competencies[i], value |-> PyFloat(s[i])]] :
              s \in [1..n -> AssessmentScores]} :
           n \in 0..Min(MaxGroupSize, Len(competencies))}

Positions == {"Staff", "Manager"}

Divisions == {"hr", "it"}

ExperienceLevels == {"junior", "mid", "senior"}

Assessment(position, division, experience, core, managerial, leadership) ==
    PyDict([employee_id |-> PyStr("EMP001"),
            current_position |-> position,
            division |-> division,
            experience_level |-> experience,
            core_competency_scores |-> PyDict(core),
            managerial_competency_scores |-> PyDict(managerial),
            leadership_competency_scores |-> PyDict(leadership)])

\* the assessments the form can submit for an employee of the hr division
WellFormedAssessments ==
    {Assessment(PyStr(p), PyStr("hr"), PyStr(e), c, m, l) :
        p \in Positions, e \in ExperienceLevels,
        c \in ScoreDicts(core_competencies),
        m \in ScoreDicts(managerial_competencies),
        l \in ScoreDicts(leadership_competencies)}

\* the score dict of a group, from its (competency, score) pairs
ScoresOf(pairs) ==
    [i \in 1..Len(pairs) |-> [key |-> pairs[i][1], value |-> PyFloat(pairs[i][2])]]

\* scores of the three groups that fall in every band of get_priority_level:
\* the ends of the bands, the top of the scale, scores below and above the scale
BandScores ==
    {<<<<<<"information_seeking", 12>>, <<"resilience", 20>>>>,
       <<<<"business_savvy", 30>>, <<"customer_focus", 40>>>>, <<>>>>,
     <<<<>>, <<<<"strategic_orientation", 12>>, <<"digital_literate", 20>>>>,
       <<<<"creativity_innovation", 30>>>>>>,
     <<<<<<"information_seeking", 20>>>>, <<>>, <<>>>>,
     <<<<<<"information_seeking", 40>>>>, <<<<"business_savvy", 50>>>>, <<>>>>,
     <<<<<<"information_seeking", 50>>, <<"resilience", 50>>>>,
       <<<<"business_savvy", 50>>>>, <<>>>>,
     <<<<<<"information_seeking", 0>>>>, <<<<"business_savvy", 60>>>>, <<>>>>}

BandAssessments ==
    {Assessment(PyStr(p), PyStr("hr"), PyStr(e),
                ScoresOf(b[1]), ScoresOf(b[2]), ScoresOf(b[3])) :
        p \in Positions, e \in ExperienceLevels, b \in BandScores}

\* assessments with a competency the competency mapping has no entry for, scored
\* lowest and scored highest
UnmappedAssessments ==
    {Assessment(PyStr("Staff"), PyStr("hr"), PyStr("mid"),
                ScoresOf(<<<<"teamwork", 12>>, <<"resilience", 20>>>>), <<>>, <<>>),
     Assessment(PyStr("Manager"), PyStr("hr"), PyStr("senior"),
                ScoresOf(<<<<"resilience", 12>>>>),
                ScoresOf(<<<<"teamwork", 30>>, <<"business_savvy", 30>>>>), <<>>),
     Assessment(PyStr("Staff"), PyStr("hr"), PyStr("junior"),
                ScoresOf(<<<<"teamwork", 12>>>>), <<>>, <<>>)}

\* assessments that score a competency of the same name in more than one group
SharedNameAssessments ==
    {Assessment(PyStr("Staff"), PyStr("hr"), PyStr("mid"),
                ScoresOf(<<<<"resilience", 30>>, <<"business_savvy", 20>>>>),
                ScoresOf(<<<<"resilience", 12>>, <<"business_savvy", 40>>>>),
                ScoresOf(<<<<"resilience", 50>>>>)),
     Assessment(PyStr("Manager"), PyStr("hr"), PyStr("senior"),
                ScoresOf(<<<<"customer_focus", 30>>>>),
                ScoresOf(<<<<"customer_focus", 30>>>>),
                ScoresOf(<<<<"customer_focus", 30>>>>))}

\* one low score of one competency of the form, for an employee of every
\* position, division and experience level of the relevance requests
ContextAssessments ==
    {Assessment(PyStr(p), PyStr(d), PyStr(e), ScoresOf(<<<<c, 12>>>>), <<>>, <<>>) :
        c \in Range(core_competencies),
        p \in Positions, d \in Divisions \cup {"unknown"}, e \in ExperienceLevels}
    \cup {Assessment(PyStr(p), PyStr(d), PyStr(e), <<>>, ScoresOf(<<<<c, 12>>>>), <<>>) :
        c \in Range(managerial_competencies),
        p \in Positions, d \in Divisions \cup {"unknown"}, e \in ExperienceLevels}
    \cup {Assessment(PyStr(p), PyStr(d), PyStr(e), <<>>, <<>>, ScoresOf(<<<<c, 12>>>>)) :
        c \in Range(leadership_competencies),
        p \in Positions, d \in Divisions \cup {"unknown"}, e \in ExperienceLevels}

\* the lowest score is of a competency whose trainings are of another division,
\* two slightly higher scores of the same band are of competencies with
\* trainings of the employee's division
CrowdedAssessments ==
    {Assessment(PyStr("Staff"), PyStr("hr"), PyStr(e),
                ScoresOf(<<<<"resilience", 13>>, <<"organizational_commitment", 13>>>>),
                ScoresOf(<<<<"sustainability_mindset", 12>>>>), <<>>) :
        e \in ExperienceLevels}

\* assessments of an employee for whom no rule of the filter lowers the
\* candidates, and of a manager, for whom the position rule does
NoneSchoolAssessments ==
    {Assessment(PyStr(p), PyStr("unknown"), PyStr("mid"), ScoresOf(core), <<>>, <<>>) :
        p \in Positions,
        core \in {<<<<"resilience", 12>>>>,
                  <<<<"ethical_oriented", 12>>>>,
                  <<<<"information_seeking", 12>>, <<"resilience", 12>>,
                    <<"ethical_oriented", 12>>>>,
                  <<<<"ethical_oriented", 12>>, <<"resilience", 20>>,
                    <<"information_seeking", 30>>>>}}

GroupNames ==
    {"core_competency_scores", "managerial_competency_scores", "leadership_competency_scores"}

\* an assessment that carries only the given score groups
PartialAssessment(groups) ==
    PyDict([f \in {"employee_id", "current_position", "division", "experience_level"}
                      \cup groups |->
               CASE f = "employee_id" -> PyStr("EMP006")
                 [] f = "current_position" -> PyStr("Staff")
                 [] f = "division" -> PyStr("hr")
                 [] f = "experience_level" -> PyStr("mid")
                 [] f = "core_competency_scores" ->
                        PyDict(ScoresOf(<<<<"information_seeking", 30>>, <<"resilience", 12>>>>))
                 [] f = "managerial_competency_scores" ->
                        PyDict(ScoresOf(<<<<"business_savvy", 20>>, <<"customer_focus", 12>>>>))
                 [] f = "leadership_competency_scores" ->
                        PyDict(ScoresOf(<<<<"creativity_innovation", 40>>,
                                          <<"transformational_leadership", 12>>>>))])

\* the assessments that lack any subset of the three score groups
PartialAssessments == {PartialAssessment(groups) : groups \in SUBSET GroupNames}

OneScore(competency, score) == <<[key |-> competency, value |-> score]>>

\* an assessment of one employee with every field present and two low scores
SampleAssessment ==
    Assessment(PyStr("Manager"), PyStr("hr"), PyStr("senior"),
               OneScore("resilience", PyFloat(12)),
               OneScore("business_savvy", PyFloat(30)), <<>>)

\* inputs that are not a well-formed assessment: not a dict, a missing field, a
\* field or a score of the wrong type, a competency the catalog does not know
MalformedAssessments ==
    {PyNone,
     PyDict([core_competency_scores |-> PyDict(OneScore("resilience", PyFloat(12)))]),
     PyDict([employee_id |-> PyStr("EMP002"),
             core_competency_scores |-> PyDict(OneScore("resilience", PyNone))]),
     PyDict([employee_id |-> PyStr("EMP003"), core_competency_scores |-> PyNone]),
     PyDict([employee_id |-> PyStr("EMP004"), current_position |-> PyNone,
             core_competency_scores |-> PyDict(OneScore("resilience", PyFloat(12)))]),
     PyDict([employee_id |-> PyStr("EMP005"), current_position |-> PyNone,
             core_competency_scores |-> PyDict(OneScore("teamwork", PyFloat(12)))])}

\* the school names of the competency mapping, and names no record matches
SchoolNames ==
    UNION {{setup_competency_mapping[c][i] : i \in 1..Len(setup_competency_mapping[c])} :
           c \in DOMAIN setup_competency_mapping}
    \cup {"Nonexistent School XYZ", "Karet", "x", "qq  zz Xy", ""}

EmptyCatalog == <<>>

\* a catalog whose only record has neither a cost nor a duration
CatalogWithoutCost ==
    <<[key |-> "XX-0001",
       value |-> [training_name |-> "Orientation", school |-> "SDM",
                  target_division |-> "hr"]]>>

Catalogs == {setup_training_database, EmptyCatalog, CatalogWithoutCost}

\* the competency mapping with an empty list of schools for one competency
MappingWithEmptyEntry == [setup_competency_mapping EXCEPT !["core_resilience"] = <<>>]

\* the competency mapping with None in place of a school name in two entries
MappingWithNoneSchool ==
    [setup_competency_mapping EXCEPT !["core_resilience"] = <<NoneSchool, "Program Keahlian Khusus">>,
                                     !["core_ethical_oriented"] = <<NoneSchool>>]

\* the catalogs a system is loaded with: the shipped one, the shipped mappings
\* with another training database, another mapping with the shipped database
LoadedCatalogs ==
    {[mapping |-> setup_competency_mapping, database |-> db] : db \in Catalogs}
    \cup {[mapping |-> MappingWithEmptyEntry, database |-> setup_training_database],
          [mapping |-> MappingWithNoneSchool, database |-> setup_training_database]}

\* the employee contexts a candidate list is filtered for
FilterPositions == {"Staff", "Senior Manager", "Supervisor"}

FilterDivisions == {"hr", "Strategy", "unknown"}

FilterExperienceLevels == {"junior", "JUNIOR", "mid", "senior"}

\* candidate lists: those of the competency mapping, one with a repeated name
\* and one with names that carry the keywords of the experience rule
CandidateLists ==
    {setup_competency_mapping[c] : c \in DOMAIN setup_competency_mapping}
    \cup {<<"SDM", "SDM", "Hukum">>,
          <<"Advanced Leadership", "Executive Management", "SDM">>,
          <<>>}

\* the records a relevance score is computed for
TrainingRecords ==
    {WithTrainingId(setup_training_database[i].value, setup_training_database[i].key) :
        i \in 1..Len(setup_training_database)}
    \cup {GenericTraining("Nonexistent School XYZ")}

RecommendRequests(assessments) ==
    {[op |-> "recommend_training", assessment_data |-> a] : a \in assessments}

PriorityAreaRequests(assessments) ==
    {[op |-> "identify_priority_areas", assessment_data |-> a] : a \in assessments}

PriorityLevelRequests == {[op |-> "get_priority_level", score |-> s] : s \in 0..MaxScore}

RelevanceRequests ==
    {[op |-> "calculate_relevance_score", competency |-> "core_resilience",
      current_score |-> s, training_details |-> t,
      employee_data |-> Assessment(PyStr(p), PyStr(d), PyStr(e), <<>>, <<>>, <<>>)] :
        s \in 0..MaxScore, t \in TrainingRecords,
        p \in Positions, d \in Divisions, e \in ExperienceLevels}
    \cup {[op |-> "calculate_relevance_score", competency |-> c,
           current_score |-> s, training_details |-> t,
           employee_data |-> Assessment(PyStr(p), PyStr("HR"), PyStr(e), <<>>, <<>>, <<>>)] :
             c \in {"managerial_business_savvy", "teamwork"},
             s \in AssessmentScores, t \in TrainingRecords,
             p \in {"Staff", "Senior Manager", "Supervisor"}, e \in {"Junior", "senior"}}

ResolveRequests == {[op |-> "get_training_details", training_school |-> s] : s \in SchoolNames}

FilterRequests ==
    {[op |-> "filter_by_context", trainings |-> t,
      position |-> PyStr(p), division |-> PyStr(d), experience |-> PyStr(e)] :
        t \in CandidateLists, p \in FilterPositions, d \in FilterDivisions,
        e \in FilterExperienceLevels}
    \cup {[op |-> "filter_by_context", trainings |-> <<"SDM">>,
           position |-> PyNone, division |-> PyStr("hr"), experience |-> PyStr("mid")]}

\* the calls studied against the shipped catalog
ShippedRequests ==
    RecommendRequests(WellFormedAssessments \cup BandAssessments \cup UnmappedAssessments
                      \cup SharedNameAssessments \cup ContextAssessments
                      \cup CrowdedAssessments
                      \cup PartialAssessments \cup MalformedAssessments)
    \cup PriorityAreaRequests({a \in WellFormedAssessments :
                                  /\ a.v.current_position = PyStr("Staff")
                                  /\ a.v.experience_level = PyStr("mid")}
                              \cup SharedNameAssessments
                              \cup PartialAssessments \cup MalformedAssessments)
    \cup PriorityLevelRequests
    \cup RelevanceRequests
    \cup ResolveRequests
    \cup FilterRequests

\* the calls studied against the other catalogs
OtherCatalogRequests ==
    RecommendRequests({SampleAssessment} \cup UnmappedAssessments \cup NoneSchoolAssessments
                      \cup MalformedAssessments)
    \cup ResolveRequests

-----------------------------------------------------------------------------
(* The state machine: one call of a public method on a loaded system *)

InitCatalog ==
    /\ division_mapping = setup_division_mapping
    /\ \E loaded \in LoadedCatalogs :
           /\ competency_training_mapping = loaded.mapping
           /\ training_database = loaded.database

\* the system holds the catalog of setup_competency_mapping and setup_training_database
IsShipped ==
    /\ competency_training_mapping = setup_competency_mapping
    /\ training_database = setup_training_database

\* the methods whose result depends on the iteration order of a set
UsesSetOrder(op) == op \in {"recommend_training", "filter_by_context"}

Init ==
    /\ InitCatalog
    /\ today = 1
    /\ request \in (IF IsShipped THEN ShippedRequests ELSE OtherCatalogRequests)
    /\ hash_seed \in (IF UsesSetOrder(request.op) THEN 0..MaxSeed ELSE {0})
    /\ result = NoResult
    /\ calls = <<>>

\* what each method leaves in the state
\* the call returns: its value is kept and self.training_database is what it left
Return(q, call) ==
    /\ result' = [f \in {"op"} \cup (DOMAIN call \ {"training_database"}) |->
                      IF f = "op" THEN q.op ELSE call[f]]
    /\ training_database' = call.training_database
    /\ UNCHANGED <<competency_training_mapping, division_mapping, hash_seed, today, calls>>

DoRecommendTraining(q) == Return(q, recommend_training(q.assessment_data))

DoIdentifyPriorityAreas(q) ==
    /\ result' = [op |-> q.op, returns |-> identify_priority_areas(q.assessment_data)]
    /\ UNCHANGED <<catalog, hash_seed, today, calls>>

DoGetPriorityLevel(q) ==
    /\ result' = [op |-> q.op, returns |-> Ok(get_priority_level(q.score))]
    /\ UNCHANGED <<catalog, hash_seed, today, calls>>

DoCalculateRelevanceScore(q) ==
    /\ result' = [op |-> q.op,
                  returns |-> calculate_relevance_score(q.competency, q.current_score,
                                                        q.training_details, q.employee_data)]
    /\ UNCHANGED <<catalog, hash_seed, today, calls>>

\* the resolver returns: its own try/except means the call itself never raises
ReturnOk(q, call) ==
    /\ result' = [op |-> q.op, returns |-> Ok(call.returns)]
    /\ training_database' = call.training_database
    /\ UNCHANGED <<competency_training_mapping, division_mapping, hash_seed, today, calls>>

DoGetTrainingDetails(q) ==
    ReturnOk(q, get_training_details(training_database, q.training_school))

DoFilterByContext(q) ==
    /\ result' = [op |-> q.op,
                  returns |-> filter_by_context(q.trainings, q.position, q.division,
                                                q.experience)]
    /\ UNCHANGED <<catalog, hash_seed, today, calls>>

Pending(op) == request.op = op /\ result = NoResult

RecommendTraining ==
    Pending("recommend_training") /\ DoRecommendTraining(request) /\ UNCHANGED request

IdentifyPriorityAreas ==
    Pending("identify_priority_areas") /\ DoIdentifyPriorityAreas(request) /\ UNCHANGED request

GetPriorityLevel ==
    Pending("get_priority_level") /\ DoGetPriorityLevel(request) /\ UNCHANGED request

CalculateRelevanceScore ==
    Pending("calculate_relevance_score") /\ DoCalculateRelevanceScore(request)
    /\ UNCHANGED request

GetTrainingDetails ==
    Pending("get_training_details") /\ DoGetTrainingDetails(request) /\ UNCHANGED request

FilterByContext ==
    Pending("filter_by_context") /\ DoFilterByContext(request) /\ UNCHANGED request

Next ==
    \/ RecommendTraining
    \/ IdentifyPriorityAreas
    \/ GetPriorityLevel
    \/ CalculateRelevanceScore
    \/ GetTrainingDetails
    \/ FilterByContext

Spec == Init /\ [][Next]_vars

-----------------------------------------------------------------------------
(* The state machine of a session: any sequence of calls, on any day *)

SessionRequests ==
    RecommendRequests({SampleAssessment} \cup MalformedAssessments)
    \cup PriorityAreaRequests({SampleAssessment, PyNone})
    \cup {[op |-> "get_training_details", training_school |-> s] :
             s \in {"SDM", "Strategi Transfrormasi", "Nonexistent School XYZ"}}
    \cup {[op |-> "filter_by_context", trainings |-> <<"SDM", "Transformasi Strategis">>,
           position |-> PyStr("Manager"), division |-> PyStr("hr"),
           experience |-> PyStr(e)] : e \in {"junior", "senior"}}

InitSession ==
    /\ InitCatalog
    /\ hash_seed \in 0..MaxSeed
    /\ today = 1
    /\ request = NoResult
    /\ result = NoResult
    /\ calls = <<>>

CallRecommendTraining ==
    \E q \in SessionRequests :
        q.op = "recommend_training" /\ request' = q /\ DoRecommendTraining(q)

CallIdentifyPriorityAreas ==
    \E q \in SessionRequests :
        q.op = "identify_priority_areas" /\ request' = q /\ DoIdentifyPriorityAreas(q)

CallGetTrainingDetails ==
    \E q \in SessionRequests :
        q.op = "get_training_details" /\ request' = q /\ DoGetTrainingDetails(q)

CallFilterByContext ==
    \E q \in SessionRequests :
        q.op = "filter_by_context" /\ request' = q /\ DoFilterByContext(q)

\* midnight passes
Tick ==
    /\ today < MaxDay
    /\ today' = today + 1
    /\ UNCHANGED <<catalog, hash_seed, request, result, calls>>

NextSession ==
    \/ CallRecommendTraining
    \/ CallIdentifyPriorityAreas
    \/ CallGetTrainingDetails
    \/ CallFilterByContext
    \/ Tick

SpecSession == InitSession /\ [][NextSession]_vars

-----------------------------------------------------------------------------
(* The state machine of concurrent callers: threads that share one system    *)
(* (load_training_system caches it) and each run recommend_training.  A step *)
(* of a call is its gap analysis, one turn of its loop over the priority     *)
(* areas, which is where the shared catalog is read, or its sort and         *)
(* response.  The steps of different calls interleave in any order.          *)

MaxCallers == 2

Callers == 1..MaxCallers

\* the assessments the callers submit: two that are served, one that faults in
\* the filter and one that faults in the gap analysis
ConcurrentAssessments ==
    {SampleAssessment,
     PartialAssessment({"core_competency_scores", "leadership_competency_scores"}),
     PyDict([employee_id |-> PyStr("EMP004"), current_position |-> PyNone,
             core_competency_scores |-> PyDict(OneScore("resilience", PyFloat(12)))]),
     PyNone}

Idle == [pc |-> "idle"]

InProgress(call) == call.pc \in {"identify", "areas"}

InitConcurrent ==
    /\ competency_training_mapping = setup_competency_mapping
    /\ division_mapping = setup_division_mapping
    /\ training_database = setup_training_database
    /\ hash_seed \in 0..MaxSeed
    /\ today = 1
    /\ request = NoResult
    /\ result = NoResult
    /\ calls = [c \in Callers |-> Idle]

\* caller c has taken a step that leaves its call as given; the calls in
\* progress of the other callers have seen a step of another caller
Stepped(c, call) ==
    [d \in Callers |->
        IF d = c THEN call
        ELSE IF InProgress(calls[d]) THEN [calls[d] EXCEPT !.interleaved = TRUE]
             ELSE calls[d]]

\* the list "recommendations" kept on the shared system: it holds what the
\* call of another caller has appended
RecommendationsOnSelf(c) ==
    LET others == {d \in Callers : d # c /\ calls[d].pc = "areas" /\ ~calls[d].acc.raised}
    IN IF others = {} \/ calls[c].acc.raised THEN calls[c].acc
       ELSE [calls[c].acc EXCEPT !.recommendations =
                calls[CHOOSE d \in others : TRUE].acc.recommendations \o @]

\* the local variable "recommendations" of the call of c (line 613), with the
\* fault that ended the loop if there was one
LocalRecommendations(c) == calls[c].acc

\* caller c enters recommend_training(assessment_data)
BeginCall(c) ==
    /\ ~InProgress(calls[c])
    /\ \E a \in ConcurrentAssessments :
           calls' = Stepped(c, [pc |-> "identify", assessment_data |-> a,
                                interleaved |-> FALSE])
    /\ UNCHANGED <<catalog, hash_seed, today, request, result>>

\* the state of the call after line 611, for the value or the fault of the gap analysis
Analysed(call, priority_areas) ==
    [pc |-> "areas", assessment_data |-> call.assessment_data,
     interleaved |-> call.interleaved,
     priority_areas |-> IF priority_areas.raised THEN <<>> ELSE priority_areas.value,
     acc |-> IF priority_areas.raised
             THEN [raised |-> TRUE, exc |-> priority_areas.exc]
             ELSE [raised |-> FALSE, recommendations |-> <<>>]]

\* step 1 (line 611): priority_areas = self.identify_priority_areas(assessment_data)
IdentifyStep(c) ==
    /\ calls[c].pc = "identify"
    /\ calls' = Stepped(c, Analysed(calls[c],
                                    identify_priority_areas(calls[c].assessment_data)))
    /\ UNCHANGED <<catalog, hash_seed, today, request, result>>

\* the accumulator of the sequential loop: the local list and the catalog as it is now
WithDatabase(acc) ==
    [f \in DOMAIN acc \cup {"training_database"} |->
        IF f = "training_database" THEN training_database ELSE acc[f]]

WithoutDatabase(acc) == [f \in DOMAIN acc \ {"training_database"} |-> acc[f]]

\* the call and the shared database after one turn of the loop that left acc
AfterArea(c, acc) ==
    /\ calls' = Stepped(c, [calls[c] EXCEPT !.acc = WithoutDatabase(acc),
                                            !.priority_areas = Tail(@)])
    /\ training_database' = acc.training_database

\* one turn of "for competency, score in priority_areas" (lines 616-651)
AreaStep(c) ==
    /\ calls[c].pc = "areas"
    /\ ~calls[c].acc.raised
    /\ calls[c].priority_areas # <<>>
    /\ AfterArea(c, ScoreArea(WithDatabase(LocalRecommendations(c)),
                              Head(calls[c].priority_areas).key,
                              Head(calls[c].priority_areas).value,
                              DictGet(competency_training_mapping,
                                      Head(calls[c].priority_areas).key, <<>>),
                              calls[c].assessment_data))
    /\ UNCHANGED <<competency_training_mapping, division_mapping, hash_seed, today,
                   request, result>>

\* steps 3 and 4 and the except handler (lines 653-667): the call returns or raises
FinishCall(c) ==
    /\ calls[c].pc = "areas"
    /\ calls[c].acc.raised \/ calls[c].priority_areas = <<>>
    /\ calls' = Stepped(c, [pc |-> "done", assessment_data |-> calls[c].assessment_data,
                            interleaved |-> calls[c].interleaved,
                            returns |-> Respond(calls[c].assessment_data,
                                                WithDatabase(LocalRecommendations(c))).returns])
    /\ UNCHANGED <<catalog, hash_seed, today, request, result>>

NextConcurrent ==
    \E c \in Callers :
        \/ BeginCall(c)
        \/ IdentifyStep(c)
        \/ AreaStep(c)
        \/ FinishCall(c)

SpecConcurrent == InitConcurrent /\ [][NextConcurrent]_vars

-----------------------------------------------------------------------------
(* Properties *)

Served(op) == result.op = op

\* recommend_training returned a response (it did not raise)
Responded == Served("recommend_training") /\ ~result.returns.raised

Response == result.returns.value

\* the response has the normal shape, not the shape of the except handlers
NormalResponse == Responded /\ "error" \notin DOMAIN Response

\* the number of i with s[i] = x, for the entries F(s[i])
Count(s, x) == Cardinality({i \in 1..Len(s) : s[i] = x})

\* C1: every response returned by recommend_training has at most 3 entries in
\* its 'recommendations' list.
C1_AtMostThreeRecommendations ==
    Responded => Len(Response.recommendations) <= 3

\* more than 3 intermediate recommendations were collected and 3 are returned
C1_Witness ==
    /\ NormalResponse
    /\ Len(result.recommendations) > 3
    /\ Len(Response.recommendations) = 3

\* C2: in every non-error response the summary's total cost is the sum of the
\* costs of the recommended trainings, its total duration the sum of their
\* durations, and its count the length of 'recommendations'.
C2_SummaryMatchesRecommendations ==
    NormalResponse =>
        LET recs == Response.recommendations
        IN /\ Response.summary.total_estimated_cost =
                  Sum([i \in 1..Len(recs) |-> recs[i].recommended_training.cost])
           /\ Response.summary.total_estimated_duration =
                  Sum([i \in 1..Len(recs) |-> recs[i].recommended_training.duration_days])
           /\ Response.summary.total_recommendations = Len(recs)

\* a response with three recommendations whose trainings are not all the same
C2_Witness ==
    /\ NormalResponse
    /\ Len(Response.recommendations) = 3
    /\ Response.recommendations[1].recommended_training.cost
           # Response.recommendations[3].recommended_training.cost
    /\ Response.summary.total_estimated_cost > 0

\* a is ranked strictly before b: lower priority level, or the same level and
\* a higher relevance
RankedBefore(a, b) ==
    \/ a.priority_level < b.priority_level
    \/ a.priority_level = b.priority_level /\ a.relevance_score > b.relevance_score

\* the (gap, training) pairs of the intermediate and of the returned recommendations
CollectedPairs ==
    [i \in 1..Len(result.recommendations) |->
        <<result.recommendations[i].competency_gap, result.recommendations[i].training_details>>]

ReturnedPairs ==
    [i \in 1..Len(Response.recommendations) |->
        <<Response.recommendations[i].competency_gap,
          Response.recommendations[i].recommended_training>>]

\* C3: the recommendations of a response are the first 3 of the intermediate
\* recommendations in the order (priority level ascending, relevance
\* descending): levels are non-decreasing down the list, relevance is
\* non-increasing among entries of one level, every returned entry is an
\* intermediate one, and no discarded entry is ranked strictly before a
\* returned one.
C3_FirstThreeInRankOrder ==
    NormalResponse =>
        LET all == result.recommendations
            kept == Response.recommendations
            Level(e) == get_priority_level(e.current_score)
            Retained(i) == Count(ReturnedPairs, CollectedPairs[i]) > 0
            Discarded(i) ==
                Count(ReturnedPairs, CollectedPairs[i]) < Count(CollectedPairs, CollectedPairs[i])
        IN /\ Len(kept) = Min(3, Len(all))
           /\ \A i, j \in 1..Len(kept) :
                  i < j => /\ Level(kept[i]) <= Level(kept[j])
                           /\ Level(kept[i]) = Level(kept[j])
                                  => kept[i].relevance_score >= kept[j].relevance_score
           /\ \A i \in 1..Len(kept) :
                  Count(ReturnedPairs, ReturnedPairs[i]) <= Count(CollectedPairs, ReturnedPairs[i])
           /\ \A i, j \in 1..Len(all) :
                  Discarded(i) /\ Retained(j) => ~RankedBefore(all[i], all[j])

\* the sort moved an entry: the first returned recommendation is not the first
\* collected one, two levels are returned and some entry is discarded
C3_Witness ==
    /\ NormalResponse
    /\ Len(result.recommendations) > 3
    /\ ReturnedPairs[1] # CollectedPairs[1]
    /\ Response.recommendations[1].current_score # Response.recommendations[3].current_score
    /\ Response.recommendations[1].relevance_score > Response.recommendations[2].relevance_score

\* the scores supplied in the three groups of the request, keyed as the merge keys them
SuppliedScores ==
    LET Group(group, prefix) ==
            LET items == DictGet(request.assessment_data.v, group, PyDict(<<>>)).v
            IN [i \in 1..Len(items) |->
                   [key |-> prefix \o items[i].key, value |-> items[i].value.v]]
    IN Group("core_competency_scores", "core_")
       \o Group("managerial_competency_scores", "managerial_")
       \o Group("leadership_competency_scores", "leadership_")

\* C4: identify_priority_areas returns min(5, n) entries for n supplied scores,
\* in non-decreasing score order, and every score it does not return is greater
\* than or equal to every score it returns.
C4_LowestFiveAscending ==
    (Served("identify_priority_areas") /\ ~result.returns.raised) =>
        LET areas == result.returns.value
            supplied == SuppliedScores
        IN /\ Len(areas) = Min(5, Len(supplied))
           /\ \A i \in 1..(Len(areas) - 1) : areas[i].value <= areas[i + 1].value
           /\ \A i \in 1..Len(areas) : \E j \in 1..Len(supplied) : supplied[j] = areas[i]
           /\ \A j \in 1..Len(supplied) :
                  (\A i \in 1..Len(areas) : areas[i].key # supplied[j].key)
                      => \A i \in 1..Len(areas) : supplied[j].value >= areas[i].value

\* six scores were supplied, five are returned and the lowest was not supplied first
C4_Witness ==
    /\ Served("identify_priority_areas")
    /\ ~result.returns.raised
    /\ Len(SuppliedScores) > 5
    /\ Len(result.returns.value) = 5
    /\ result.returns.value[1] # SuppliedScores[1]
    /\ result.returns.value[1].value < result.returns.value[5].value

\* C5: get_priority_level returns 1 iff score < 2.0, 2 iff 2.0 <= score < 3.0,
\* 3 iff 3.0 <= score < 3.5 and 4 iff score >= 3.5, for every score >= 0.
C5_PriorityBands ==
    Served("get_priority_level") =>
        LET score == request.score
            level == result.returns.value
        IN /\ level \in 1..4
           /\ level = 1 <=> score < 20
           /\ level = 2 <=> (20 <= score /\ score < 30)
           /\ level = 3 <=> (30 <= score /\ score < 35)
           /\ level = 4 <=> score >= 35

\* the boundary 3.5 is in the band of level 4
C5_Witness ==
    Served("get_priority_level") /\ request.score = 35 /\ result.returns.value = 4

\* C6: calculate_relevance_score returns a value between 0.1 and 10.0 for every
\* score, also outside [1, 5], and every combination of multipliers.
C6_RelevanceClamped ==
    (Served("calculate_relevance_score") /\ ~result.returns.raised) =>
        /\ result.returns.value >= 1000
        /\ result.returns.value <= 100000

\* a score below 1.0 whose product with the three multipliers exceeds 10.0
C6_Witness ==
    /\ Served("calculate_relevance_score")
    /\ request.current_score < 10
    /\ (50 - request.current_score) * 15 * 13 * 12 > 100000
    /\ IsManagerial(request.employee_data.v.current_position.v)
    /\ request.employee_data.v.experience_level.v = "senior"
    /\ request.training_details.training_id = "HR-2024-401"
    /\ request.employee_data.v.division.v = "hr"
    /\ result.returns.value = 100000

\* C7: for every non-empty school name and every catalog, also an empty one,
\* get_training_details returns a record, never None and never an exception,
\* whose training_id is a non-empty string.
C7_ResolverAlwaysReturnsRecord ==
    (Served("get_training_details") /\ request.training_school # "") =>
        /\ ~result.returns.raised
        /\ result.returns.value # PyNone
        /\ "training_id" \in DOMAIN result.returns.value
        /\ result.returns.value.training_id # ""

\* the last tier against the empty catalog
C7_Witness ==
    /\ Served("get_training_details")
    /\ training_database = EmptyCatalog
    /\ request.training_school = "Nonexistent School XYZ"
    /\ result.returns.value.training_id = "GENERIC_NONEXISTENT_SCHOOL_XYZ"

\* C8: recommend_training never raises: whatever the input, a fault in any of
\* its steps gives a response with an 'error' field, an empty 'recommendations'
\* list and a summary of zeros.
C8_NeverRaises ==
    Served("recommend_training") =>
        /\ ~result.returns.raised
        /\ "error" \in DOMAIN Response =>
               /\ Response.recommendations = <<>>
               /\ Response.summary = [total_recommendations |-> 0,
                                      total_estimated_cost |-> 0,
                                      total_estimated_duration |-> 0]

\* C9: once recommend_training has returned a response for an input, a further
\* call with the same input and the same catalog returns the same response.
C9_SameInputSameResponse ==
    [][(/\ Served("recommend_training")
        /\ request' = request
        /\ catalog' = catalog) => result' = result]_vars

\* C10: no call changes the competency mapping, the division mapping or the
\* training database.
C10_CatalogNeverChanges == [][catalog' = catalog]_vars

\* a placeholder was returned in a response, against a catalog that lacks the school
C10_Witness ==
    /\ NormalResponse
    /\ training_database = EmptyCatalog
    /\ Len(Response.recommendations) > 0
    /\ Response.recommendations[1].recommended_training.training_id = "GENERIC_SDM"

\* the candidate carries one of the keywords of the junior rule
IsAdvancedName(t) ==
    \E k \in {"advanced", "strategic", "transformasi", "executive"} :
        IsSubstring(k, LowerOf(t))

\* C11: for a junior employee, however the level is capitalised, the filter
\* returns exactly the distinct candidates without a keyword of the junior rule,
\* each once, also when the position or the division rule had added a candidate
\* that carries one.
C11_JuniorFilter ==
    (/\ Served("filter_by_context")
     /\ ~result.returns.raised
     /\ LowerOf(request.experience.v) = "junior") =>
        /\ Range(result.returns.value) = {t \in Range(request.trainings) : ~IsAdvancedName(t)}
        /\ Cardinality(Range(result.returns.value)) = Len(result.returns.value)

\* a supervisor's leadership candidate, added by the position rule, is removed
C11_Witness ==
    /\ Served("filter_by_context")
    /\ request.experience = PyStr("JUNIOR")
    /\ request.position = PyStr("Supervisor")
    /\ request.trainings = <<"Advanced Leadership", "Executive Management", "SDM">>
    /\ result.returns = Ok(<<"SDM">>)

\* the positions of the catalog records whose school field contains the needle
RecordsWith(needle) ==
    {i \in 1..Len(training_database) :
        IsSubstring(needle, LowerOf(DictGet(training_database[i].value, "school", "")))}

\* the positions of the records the substring tier and the word tier match
SubstringTier == RecordsWith(LowerOf(request.training_school))

WordTier == UNION {RecordsWith(w) : w \in Range(Split(LowerOf(request.training_school)))}

\* the record at the first position of a tier, carrying the catalog key
ReturnsFirstOf(tier) ==
    LET first == CHOOSE i \in tier : \A j \in tier : i <= j
    IN /\ result.returns.value.training_id = training_database[first].key
       /\ \A f \in DOMAIN training_database[first].value \ {"training_id"} :
              result.returns.value[f] = training_database[first].value[f]

\* C12: the resolver returns the first record of the substring tier if there is
\* one, else the first record of the word tier if there is one, else the
\* placeholder; a catalog record is returned with its catalog key as training_id.
C12_TiersInOrder ==
    Served("get_training_details") =>
        IF SubstringTier # {} THEN ReturnsFirstOf(SubstringTier)
        ELSE IF WordTier # {} THEN ReturnsFirstOf(WordTier)
        ELSE result.returns.value = GenericTraining(request.training_school)

\* a name of two words that the substring tier resolves to a later record than
\* the first one holding one of its words
C12_Witness ==
    /\ Served("get_training_details")
    /\ SubstringTier # {}
    /\ \E i \in WordTier : \A j \in SubstringTier : i < j
    /\ ReturnsFirstOf(SubstringTier)

\* a misspelt name that only the word tier resolves
C12_WitnessWordTier ==
    /\ Served("get_training_details")
    /\ SubstringTier = {}
    /\ WordTier # {}
    /\ ReturnsFirstOf(WordTier)

\* the band of a score: below 2.0, from 2.0, from 3.0, from 3.5
BandOf(score) ==
    IF score < 20 THEN 1 ELSE IF score < 30 THEN 2 ELSE IF score < 35 THEN 3 ELSE 4

\* the competency gaps of the returned recommendations whose band is one of
\* the given ones, in rank order
GapsInBands(bands) ==
    LET kept == SelectSeq(Response.recommendations,
                          LAMBDA rec : BandOf(rec.current_score) \in bands)
    IN [i \in 1..Len(kept) |-> kept[i].competency_gap]

\* C13: in a normal response the bucket 'critical' lists the gaps of the
\* recommendations of level 1, 'high_priority' those of level 2 and
\* 'medium_priority' those of levels 3 and 4, each in rank order, so that every
\* recommendation is in exactly one bucket.
C13_DevelopmentPathBuckets ==
    NormalResponse =>
        /\ Response.development_path.critical = GapsInBands({1})
        /\ Response.development_path.high_priority = GapsInBands({2})
        /\ Response.development_path.medium_priority = GapsInBands({3, 4})
        /\ Len(Response.development_path.critical)
               + Len(Response.development_path.high_priority)
               + Len(Response.development_path.medium_priority)
           = Len(Response.recommendations)

\* a response with a recommendation in each bucket
C13_Witness ==
    /\ NormalResponse
    /\ Len(Response.recommendations) = 3
    /\ Response.development_path.critical # <<>>
    /\ Response.development_path.high_priority # <<>>
    /\ Response.development_path.medium_priority # <<>>

\* a recommendation of level 4 in the bucket 'medium_priority'
C13_WitnessLowPriority ==
    /\ NormalResponse
    /\ \E i \in 1..Len(Response.recommendations) :
           Response.recommendations[i].current_score = 40
    /\ Response.development_path.medium_priority # <<>>

\* every score of the request is 5.0
AllScoresAreTop == \A i \in 1..Len(SuppliedScores) : SuppliedScores[i].value = 50

\* C14: every returned recommendation has expected_improvement =
\* min(2.0, 5.0 - current_score) and target_score = min(5.0, current_score +
\* expected_improvement), hence at most 2.0 and 5.0, and a target not below a
\* current score between 1.0 and 5.0; when every score is 5.0 every
\* recommendation has level 4, improvement 0.0 and its current score as target.
C14_ImprovementAndTarget ==
    NormalResponse =>
        \A i \in 1..Len(Response.recommendations) :
            LET rec == Response.recommendations[i]
            IN /\ rec.expected_improvement = Min(20, 50 - rec.current_score)
               /\ rec.target_score = Min(50, rec.current_score + rec.expected_improvement)
               /\ rec.expected_improvement <= 20
               /\ rec.target_score <= 50
               /\ (rec.current_score >= 10 /\ rec.current_score <= 50)
                      => rec.target_score >= rec.current_score
               /\ AllScoresAreTop =>
                      /\ rec.timeline = "Low Priority (within 12 months)"
                      /\ Response.development_path.medium_priority # <<>>
                      /\ Response.development_path.critical = <<>>
                      /\ Response.development_path.high_priority = <<>>
                      /\ rec.expected_improvement = 0
                      /\ rec.target_score = rec.current_score

\* three recommendations for an employee whose scores are all 5.0
C14_Witness ==
    /\ NormalResponse
    /\ AllScoresAreTop
    /\ Len(Response.recommendations) = 3
    /\ Response.recommendations[1].target_score = 50

\* the cap of 2.0 at work: a score of 1.2 with target 3.2
C14_WitnessCapped ==
    /\ NormalResponse
    /\ \E i \in 1..Len(Response.recommendations) :
           /\ Response.recommendations[i].current_score = 12
           /\ Response.recommendations[i].expected_improvement = 20
           /\ Response.recommendations[i].target_score = 32

\* the priority gaps of the request
PriorityGaps ==
    LET areas == identify_priority_areas(request.assessment_data).value
    IN {areas[i].key : i \in 1..Len(areas)}

\* the gaps the competency mapping has no school for: no entry, or an empty one
Unmapped(gap) == DictGet(competency_training_mapping, gap, <<>>) = <<>>

\* the gaps of the recommendations collected before the sort
CollectedGaps ==
    {result.recommendations[i].competency_gap : i \in 1..Len(result.recommendations)}

\* C15: for a catalog of records with costs and of school names, and for an
\* assessment that is well-formed apart from its competencies, a
\* priority gap without schools in the competency mapping contributes no
\* recommendation and raises no fault: the response has no 'error' field and
\* every other priority gap has its recommendations.
C15_UnmappedGapSkipped ==
    (/\ Served("recommend_training")
     /\ training_database # CatalogWithoutCost
     /\ \A c \in DOMAIN competency_training_mapping :
            \A t \in Range(competency_training_mapping[c]) : IsStr(t)
     /\ request.assessment_data
            \in WellFormedAssessments \cup BandAssessments \cup UnmappedAssessments
                    \cup {SampleAssessment}) =>
        /\ NormalResponse
        /\ \A gap \in PriorityGaps : Unmapped(gap) <=> gap \notin CollectedGaps

\* the lowest score is of a competency without an entry, the next gap is served
C15_Witness ==
    /\ NormalResponse
    /\ "core_teamwork" \in PriorityGaps
    /\ "core_teamwork" \notin DOMAIN competency_training_mapping
    /\ Len(Response.recommendations) > 0
    /\ \A i \in 1..Len(Response.recommendations) :
           Response.recommendations[i].competency_gap = "core_resilience"

\* the lowest score is of a competency with an empty entry, the next gap is served
C15_WitnessEmptyEntry ==
    /\ NormalResponse
    /\ "core_resilience" \in PriorityGaps
    /\ competency_training_mapping["core_resilience"] = <<>>
    /\ Len(Response.recommendations) > 0

\* the request's assessment lacks at least one of the three score groups
LacksAGroup ==
    /\ request.assessment_data \in PartialAssessments
    /\ GroupNames \ DOMAIN request.assessment_data.v # {}

\* areas are entries of the supplied scores, in non-decreasing score order, and
\* no supplied score that is left out is lower than one of them
AreLowestOf(areas, supplied) ==
    /\ \A i \in 1..Len(areas) : areas[i] \in Range(supplied)
    /\ \A i \in 1..(Len(areas) - 1) : areas[i].value <= areas[i + 1].value
    /\ \A left \in Range(supplied) \ Range(areas) :
           \A i \in 1..Len(areas) : left.value >= areas[i].value

\* C16: a missing score group counts as an empty one.  identify_priority_areas
\* on an assessment that lacks some of the groups does not raise and returns the
\* lowest min(5, n) of the n scores present; recommend_training on an assessment
\* without any score returns a normal response with no recommendation, three
\* empty buckets and a summary of zeros.
C16_MissingGroupIsEmpty ==
    /\ (Served("identify_priority_areas") /\ LacksAGroup) =>
           /\ ~result.returns.raised
           /\ Len(result.returns.value) = Min(5, Len(SuppliedScores))
           /\ AreLowestOf(result.returns.value, SuppliedScores)
    /\ (/\ Served("recommend_training")
        /\ request.assessment_data \in PartialAssessments \cup WellFormedAssessments
        /\ SuppliedScores = <<>>) =>
           /\ NormalResponse
           /\ Response.recommendations = <<>>
           /\ Response.development_path =
                  [critical |-> <<>>, high_priority |-> <<>>, medium_priority |-> <<>>]
           /\ Response.summary = [total_recommendations |-> 0, total_estimated_cost |-> 0,
                                  total_estimated_duration |-> 0]

\* only the core group is missing: the four scores of the other groups return
C16_Witness ==
    /\ Served("identify_priority_areas")
    /\ LacksAGroup
    /\ DOMAIN request.assessment_data.v \cap GroupNames
           = {"managerial_competency_scores", "leadership_competency_scores"}
    /\ Len(result.returns.value) = 4
    /\ result.returns.value[1].key = "managerial_customer_focus"

\* an assessment without any score group gets the empty normal response
C16_WitnessNoScores ==
    /\ NormalResponse
    /\ DOMAIN request.assessment_data.v \cap GroupNames = {}
    /\ Response.recommendations = <<>>
    /\ Response.summary.total_recommendations = 0

\* C17: whatever the interleaving of the steps of the callers, a call that has
\* returned (or raised) has returned what recommend_training returns for its
\* assessment when it runs alone on the same system.
C17_ConcurrentCallsIndependent ==
    \A c \in DOMAIN calls :
        calls[c].pc = "done" =>
            calls[c].returns = recommend_training(calls[c].assessment_data).returns

\* two callers with different assessments, both served three recommendations,
\* each having seen steps of the other during its call
C17_Witness ==
    /\ calls # <<>>
    /\ \A c \in {1, 2} :
           /\ calls[c].pc = "done"
           /\ calls[c].interleaved
           /\ ~calls[c].returns.raised
           /\ Len(calls[c].returns.value.recommendations) = 3
    /\ calls[1].assessment_data # calls[2].assessment_data

\* the lower-cased text contains one of the keywords
HasOneOf(keywords, text) == \E k \in keywords : IsSubstring(k, LowerOf(text))

\* the product (5.0 - current_score) x P x D x E of the request, in 1/10000
RelevanceProduct ==
    LET employee == request.employee_data.v
        training == request.training_details
        P == IF /\ HasOneOf({"manager", "supervisor"}, employee.current_position.v)
                /\ HasOneOf({"strategi", "leadership", "management", "manajemen",
                             "strategic", "executive"}, training.training_name)
             THEN 15 ELSE 10
        D == IF \/ LowerOf(training.target_division) = LowerOf(employee.division.v)
                \/ LowerOf(training.target_division) = "all"
             THEN 13 ELSE 10
        advanced == HasOneOf({"advanced", "strategic", "transformasi", "leadership",
                              "executive"}, training.training_name)
        E == IF \/ LowerOf(employee.experience_level.v) = "junior" /\ ~advanced
                \/ LowerOf(employee.experience_level.v) = "senior" /\ advanced
             THEN 12 ELSE 10
    IN (50 - request.current_score) * P * D * E

\* C18: calculate_relevance_score returns the product (5.0 - current_score) x
\* P x D x E, P, D and E being 1.5, 1.3 and 1.2 exactly under the position,
\* division and experience conditions and 1.0 otherwise, brought into
\* [0.1, 10.0]; the competency key has no part in it.
C18_RelevanceIsProduct ==
    (Served("calculate_relevance_score") /\ ~result.returns.raised) =>
        result.returns.value =
            IF RelevanceProduct < 1000 THEN 1000
            ELSE IF RelevanceProduct > 100000 THEN 100000
            ELSE RelevanceProduct

\* all three multipliers apply and the product 2.0 x 1.5 x 1.3 x 1.2 = 4.68 is
\* returned as it is, for a competency the catalog does not know
C18_Witness ==
    /\ Served("calculate_relevance_score")
    /\ request.competency = "teamwork"
    /\ request.current_score = 30
    /\ request.employee_data.v.current_position = PyStr("Senior Manager")
    /\ request.employee_data.v.experience_level = PyStr("senior")
    /\ request.training_details.target_division = "ALL"
    /\ result.returns.value = 46800

\* the name in upper case with an underscore at the place of each space
IsUnderscoredUpper(id, name) ==
    /\ Len(id) = Len(name)
    /\ \A i \in 1..Len(name) :
           CharAt(id, i) = IF CharAt(name, i) = " " THEN "_"
                           ELSE IF CharAt(name, i) \in DOMAIN ToUpperChar
                                THEN ToUpperChar[CharAt(name, i)]
                                ELSE CharAt(name, i)

\* C19: when neither the substring tier nor the word tier matches, the
\* resolver returns a placeholder: training_id 'GENERIC_' followed by the
\* school name in upper case with '_' for each space, school the name verbatim,
\* target_division 'general', target_level 'ALL', duration_days 3, cost
\* 5000000, job_family 'General' and exactly two learning objectives.
C19_PlaceholderFields ==
    (Served("get_training_details") /\ SubstringTier = {} /\ WordTier = {}) =>
        /\ ~result.returns.raised
        /\ result.returns.value # PyNone
        /\ LET placeholder == result.returns.value
           IN /\ SubSeq(placeholder.training_id, 1, 8) = "GENERIC_"
              /\ IsUnderscoredUpper(SubSeq(placeholder.training_id, 9,
                                           Len(placeholder.training_id)),
                                    request.training_school)
              /\ placeholder.school = request.training_school
              /\ placeholder.target_division = "general"
              /\ placeholder.target_level = "ALL"
              /\ placeholder.duration_days = 3
              /\ placeholder.cost = 5000000
              /\ placeholder.job_family = "General"
              /\ Len(placeholder.learning_objectives) = 2

\* a name of mixed case with two spaces in a row that no record of the shipped
\* catalog matches
C19_Witness ==
    /\ Served("get_training_details")
    /\ training_database = setup_training_database
    /\ SubstringTier = {} /\ WordTier = {}
    /\ request.training_school = "qq  zz Xy"
    /\ result.returns.value.training_id = "GENERIC_QQ__ZZ_XY"
    /\ result.returns.value.school = "qq  zz Xy"

\* the empty name against the empty catalog: the placeholder 'GENERIC_'
C19_WitnessEmptyName ==
    /\ Served("get_training_details")
    /\ training_database = EmptyCatalog
    /\ request.training_school = ""
    /\ result.returns.value.training_id = "GENERIC_"

\* the place of the j-th supplied score when the scores are ordered by value
\* and, for equal values, by their place in the merge order
PlaceOf(supplied, j) ==
    1 + Cardinality({k \in 1..Len(supplied) :
                        \/ supplied[k].value < supplied[j].value
                        \/ supplied[k].value = supplied[j].value /\ k < j})

\* C20: identify_priority_areas orders entries of equal scores by the merge
\* order, core before managerial before leadership and within a group as the
\* input mapping iterates; the entries inside the cut of five are the first
\* five of that order.
C20_TiesInMergeOrder ==
    (Served("identify_priority_areas") /\ ~result.returns.raised) =>
        LET areas == result.returns.value
            supplied == SuppliedScores
        IN \A j \in 1..Len(supplied) :
               PlaceOf(supplied, j) <= PriorityAreasCut =>
                   /\ PlaceOf(supplied, j) <= Len(areas)
                   /\ areas[PlaceOf(supplied, j)].key = supplied[j].key
                   /\ areas[PlaceOf(supplied, j)].value = supplied[j].value

\* six scores, the lowest not supplied first, and the fifth returned score
\* equal to the score that was cut: the later of the two in the merge order
C20_Witness ==
    /\ Served("identify_priority_areas")
    /\ ~result.returns.raised
    /\ Len(SuppliedScores) > PriorityAreasCut
    /\ Len(result.returns.value) = PriorityAreasCut
    /\ SuppliedScores[1].value > result.returns.value[1].value
    /\ \E j \in 1..Len(SuppliedScores) :
           /\ \A i \in 1..PriorityAreasCut : result.returns.value[i].key # SuppliedScores[j].key
           /\ SuppliedScores[j].value = result.returns.value[PriorityAreasCut].value
           /\ \E k \in 1..(j - 1) :
                  SuppliedScores[k].key = result.returns.value[PriorityAreasCut].key

\* all_scores of the request after the three merge loops
MergedScores ==
    MergeGroup(MergeGroup(MergeGroup(Ok(<<>>), request.assessment_data,
                                     "core_competency_scores", "core_"),
                          request.assessment_data, "managerial_competency_scores", "managerial_"),
               request.assessment_data, "leadership_competency_scores", "leadership_")

\* the number of scores of a group of the request
GroupSize(group) == Len(DictGet(request.assessment_data.v, group, PyDict(<<>>)).v)

\* the competency names scored in a group of the request
NamesIn(group) ==
    {item.key : item \in Range(DictGet(request.assessment_data.v, group, PyDict(<<>>)).v)}

\* C21: the merge keeps keys unique by prefixing: every score of every group
\* yields exactly one merged entry keyed '<group>_<name>', a name scored in two
\* groups yields two entries, and the merged entries are as many as the scores
\* of the three groups together.
C21_MergeKeepsEveryScore ==
    (Served("identify_priority_areas") /\ ~result.returns.raised) =>
        LET merged == MergedScores.value
        IN /\ Len(merged) = GroupSize("core_competency_scores")
                            + GroupSize("managerial_competency_scores")
                            + GroupSize("leadership_competency_scores")
           /\ \A i, j \in 1..Len(merged) : merged[i].key = merged[j].key => i = j
           /\ \A j \in 1..Len(SuppliedScores) :
                  Cardinality({i \in 1..Len(merged) : merged[i] = SuppliedScores[j]}) = 1
           /\ \A i \in 1..Len(result.returns.value) :
                  \E j \in 1..Len(merged) : merged[j] = result.returns.value[i]

\* the name 'resilience' is scored in all three groups with three scores, and
\* the three entries are returned under their three keys
C21_Witness ==
    /\ Served("identify_priority_areas")
    /\ ~result.returns.raised
    /\ "resilience" \in NamesIn("core_competency_scores")
                        \cap NamesIn("managerial_competency_scores")
                        \cap NamesIn("leadership_competency_scores")
    /\ Len(result.returns.value) = 5
    /\ result.returns.value[1] = [key |-> "managerial_resilience", value |-> 12]
    /\ result.returns.value[3] = [key |-> "core_resilience", value |-> 30]
    /\ result.returns.value[5] = [key |-> "leadership_resilience", value |-> 50]

\* C22: in every non-error response with K recommendations the priority
\* fields are 1, 2, ..., K in list order, whatever the priority levels of the
\* entries.
C22_SequentialPriority ==
    NormalResponse =>
        /\ Response.summary.total_recommendations = Len(Response.recommendations)
        /\ \A i \in 1..Len(Response.recommendations) :
               Response.recommendations[i].priority = i

\* three entries ranked 1, 2, 3 whose gaps are of the levels 1, 1 and 3
C22_Witness ==
    /\ NormalResponse
    /\ Len(Response.recommendations) = 3
    /\ Response.recommendations[3].priority = 3
    /\ BandOf(Response.recommendations[1].current_score) = 1
    /\ BandOf(Response.recommendations[2].current_score) = 1
    /\ BandOf(Response.recommendations[3].current_score) = 3

\* the schools of a gap that the context filter leaves for the request's employee
SurvivingSchools(gap) ==
    {t \in Range(setup_competency_mapping[gap]) :
        LowerOf(DictGet(request.assessment_data.v, "experience_level", PyStr("")).v) = "junior"
            => ~IsAdvancedName(t)}

\* the recommendations collected for a gap, before the sort
CollectedFor(gap) ==
    {i \in 1..Len(result.recommendations) : result.recommendations[i].competency_gap = gap}

\* C23: with the shipped catalog every priority gap with an entry in the
\* competency mapping yields at least one intermediate recommendation, whatever
\* the position, the division and the experience level: the filter leaves at
\* least one school and the resolver returns a record for each school left.
C23_MappedGapYieldsCandidate ==
    (Served("recommend_training") /\ IsShipped /\ NormalResponse) =>
        \A gap \in PriorityGaps \cap DOMAIN setup_competency_mapping :
            /\ CollectedFor(gap) # {}
            /\ Cardinality(CollectedFor(gap)) = Cardinality(SurvivingSchools(gap))
            /\ \A i \in CollectedFor(gap) :
                   /\ result.recommendations[i].training_details # PyNone
                   /\ result.recommendations[i].training_details.training_id # ""

\* a junior whose only gap has one school with a keyword of the junior rule:
\* the other school is left and resolved
C23_Witness ==
    /\ Served("recommend_training") /\ IsShipped /\ NormalResponse
    /\ request.assessment_data \in ContextAssessments
    /\ request.assessment_data.v.experience_level = PyStr("junior")
    /\ request.assessment_data.v.division = PyStr("it")
    /\ PriorityGaps = {"leadership_creativity_innovation"}
    /\ Cardinality(SurvivingSchools("leadership_creativity_innovation")) = 1
    /\ Len(result.recommendations) = 1
    /\ result.recommendations[1].competency_gap = "leadership_creativity_innovation"

IsGenericId(training_id) == SubSeq(training_id, 1, 8) = "GENERIC_"

\* the school names listed in the competency mapping of the shipped system
MappedSchools == UNION {Range(setup_competency_mapping[c]) : c \in DOMAIN setup_competency_mapping}

\* C25: with the shipped catalog every school name of the competency mapping
\* resolves to a record of the training database by the substring tier or the
\* word tier, and no response of recommend_training holds a recommended
\* training whose id starts with 'GENERIC_'.
C25_NoGenericWithShippedCatalog ==
    /\ (/\ Served("get_training_details")
        /\ training_database = setup_training_database
        /\ request.training_school \in MappedSchools) =>
           /\ SubstringTier \cup WordTier # {}
           /\ ~IsGenericId(result.returns.value.training_id)
           /\ \E i \in 1..Len(setup_training_database) :
                  setup_training_database[i].key = result.returns.value.training_id
    /\ (Responded /\ training_database = setup_training_database) =>
           \A i \in 1..Len(Response.recommendations) :
               ~IsGenericId(Response.recommendations[i].recommended_training.training_id)

\* the misspelt school of the mapping, which only the word tier resolves, is
\* recommended to a junior with a record of the database
C25_Witness ==
    /\ NormalResponse
    /\ training_database = setup_training_database
    /\ request.assessment_data \in ContextAssessments
    /\ request.assessment_data.v.experience_level = PyStr("junior")
    /\ PriorityGaps = {"managerial_strategic_orientation"}
    /\ Len(Response.recommendations) = 1
    /\ \E i \in 1..Len(setup_training_database) :
           /\ setup_training_database[i].key =
                  Response.recommendations[1].recommended_training.training_id
           /\ ~IsSubstring("strategi transfrormasi",
                           LowerOf(setup_training_database[i].value.school))

\* the same school asked of the resolver: no substring match, a word match
C25_WitnessWordTier ==
    /\ Served("get_training_details")
    /\ training_database = setup_training_database
    /\ request.training_school = "Strategi Transfrormasi"
    /\ SubstringTier = {}
    /\ WordTier # {}
    /\ ~IsGenericId(result.returns.value.training_id)

\* C26: with the shipped catalog the recommendations of one response are
\* pairwise distinct in the pair (competency_gap, training_id): no record is
\* recommended twice for the same gap.
C26_DistinctGapAndTraining ==
    (NormalResponse /\ training_database = setup_training_database) =>
        \A i, j \in 1..Len(Response.recommendations) :
            (/\ Response.recommendations[i].competency_gap =
                    Response.recommendations[j].competency_gap
             /\ Response.recommendations[i].recommended_training.training_id =
                    Response.recommendations[j].recommended_training.training_id) => i = j

\* the supplied score that is lower than every other supplied score, if any
StrictlyLowest ==
    {SuppliedScores[j].key : j \in {j \in 1..Len(SuppliedScores) :
        \A k \in 1..Len(SuppliedScores) :
            k # j => SuppliedScores[j].value < SuppliedScores[k].value}}

\* the gaps named by the recommendations of the response
ReturnedGaps ==
    {Response.recommendations[i].competency_gap : i \in 1..Len(Response.recommendations)}

\* C27: with the shipped catalog, when the competency with the strictly lowest
\* score has an entry in the competency mapping, at least one recommendation
\* of the response names it as its competency_gap.
C27_LowestGapRecommended ==
    (NormalResponse /\ IsShipped) =>
        \A gap \in StrictlyLowest \cap DOMAIN setup_competency_mapping : gap \in ReturnedGaps

\* the lowest gap has its intermediate recommendations, and the three returned
\* ones are of the two other gaps of the same band
C27_LowestGapCrowdedOut ==
    /\ NormalResponse /\ IsShipped
    /\ StrictlyLowest = {"managerial_sustainability_mindset"}
    /\ "managerial_sustainability_mindset" \in CollectedGaps
    /\ Len(Response.recommendations) = 3
    /\ ReturnedGaps = {"core_resilience", "core_organizational_commitment"}

\* d[k1][k2] of a response: KeyError when a key is missing
Subscript2(d, k1, k2) ==
    IF k1 \notin DOMAIN d THEN Raise("KeyError")
    ELSE IF k2 \notin DOMAIN d[k1] THEN Raise("KeyError")
         ELSE Ok(d[k1][k2])

\* the summary metrics of the Results & Analytics view, drawn from the response
\* stored in the session: the four reads without a default, in their order
ResultsView(rec_data) ==
    LET total == Subscript2(rec_data, "summary", "total_recommendations")
        cost == Subscript2(rec_data, "summary", "total_estimated_cost")
        duration == Subscript2(rec_data, "summary", "total_estimated_duration")
        critical == Subscript2(rec_data, "development_path", "critical")
    IN IF total.raised THEN total
       ELSE IF cost.raised THEN cost
       ELSE IF duration.raised THEN duration
       ELSE IF critical.raised THEN critical
       ELSE Ok([total_recommendations |-> total.value,
                total_investment |-> cost.value,
                total_duration |-> duration.value,
                critical_areas |-> Len(critical.value)])

\* C28: every response recommend_training returns, of the normal shape or of
\* the error shape, holds the fields the Results & Analytics view reads without
\* a default (the three totals of the summary and development_path.critical),
\* so the view renders it without a fault.
C28_ViewFieldsPresent ==
    Responded =>
        /\ {"summary", "development_path"} \subseteq DOMAIN Response
        /\ ~ResultsView(Response).raised

\* a response of the error shape: the three totals are there, the development
\* path is not, and the view faults on it
C28_ErrorShapeFaultsView ==
    /\ Responded
    /\ "error" \in DOMAIN Response
    /\ "summary" \in DOMAIN Response
    /\ "development_path" \notin DOMAIN Response
    /\ ResultsView(Response) = Raise("KeyError")

\* a response of the normal shape is rendered with its count of critical areas
C28_NormalShapeRenders ==
    /\ NormalResponse
    /\ Len(Response.recommendations) = 3
    /\ ResultsView(Response).value.critical_areas = 2

\* the schools of a gap in the loaded mapping that are names
NamedSchools(gap) == {t \in Range(competency_training_mapping[gap]) : IsStr(t)}

\* C29: a fault inside get_training_details for one school is absorbed there:
\* the resolver returns None, recommend_training drops that candidate alone,
\* and the other schools and gaps of the request have their recommendations in
\* a response without an 'error' field.
C29_ResolverFaultAbsorbed ==
    (/\ Served("recommend_training")
     /\ competency_training_mapping = MappingWithNoneSchool
     /\ request.assessment_data \in NoneSchoolAssessments
     /\ request.assessment_data.v.current_position = PyStr("Staff")) =>
        /\ NormalResponse
        /\ \A gap \in PriorityGaps :
               /\ Cardinality(CollectedFor(gap)) = Cardinality(NamedSchools(gap))
               /\ \A i \in CollectedFor(gap) :
                      result.recommendations[i].training_details # PyNone
        /\ Response.summary.total_recommendations = Min(3, Len(result.recommendations))

\* three gaps, the resolver faults on one school of the first and on the only
\* school of the second: one, none and two recommendations
C29_Witness ==
    /\ NormalResponse
    /\ competency_training_mapping = MappingWithNoneSchool
    /\ PriorityGaps = {"core_resilience", "core_ethical_oriented", "core_information_seeking"}
    /\ Cardinality(CollectedFor("core_resilience")) = 1
    /\ CollectedFor("core_ethical_oriented") = {}
    /\ Cardinality(CollectedFor("core_information_seeking")) = 2
    /\ Len(Response.recommendations) = 3

\* the badge with <= for <: a boundary score takes the graver badge
priority_badge_inclusive(current_score) ==
    IF current_score <= 20 THEN "CRITICAL"
    ELSE IF current_score <= 30 THEN "HIGH"
    ELSE "MEDIUM"

\* the priority badge of display_training_card (lines 810-819)
priority_badge(current_score) ==
    IF current_score < 20 THEN "CRITICAL"
    ELSE IF current_score < 30 THEN "HIGH"
    ELSE "MEDIUM"

\* the gaps of the recommendations of the response that carry the badge, in order
GapsWithBadge(badge) ==
    LET chosen == SelectSeq(Response.recommendations,
                            LAMBDA rec : priority_badge(rec.current_score) = badge)
    IN [i \in 1..Len(chosen) |-> chosen[i].competency_gap]

\* C30: the badge display_training_card derives from the current_score of a
\* recommendation agrees with the bucket of the development path that holds
\* it: CRITICAL with 'critical', HIGH with 'high_priority', MEDIUM with
\* 'medium_priority', for every score.
C30_BadgeAgreesWithBucket ==
    /\ Served("get_priority_level") =>
           /\ priority_badge(request.score) = "CRITICAL" <=> result.returns.value = 1
           /\ priority_badge(request.score) = "HIGH" <=> result.returns.value = 2
           /\ priority_badge(request.score) = "MEDIUM" <=> result.returns.value \in {3, 4}
    /\ NormalResponse =>
           /\ Response.development_path.critical = GapsWithBadge("CRITICAL")
           /\ Response.development_path.high_priority = GapsWithBadge("HIGH")
           /\ Response.development_path.medium_priority = GapsWithBadge("MEDIUM")

\* a response whose three recommendations carry the three badges, one of them
\* for the boundary score 2.0
C30_Witness ==
    /\ NormalResponse
    /\ Len(Response.recommendations) = 3
    /\ \E i \in 1..3 : Response.recommendations[i].current_score = 20
    /\ Len(Response.development_path.critical) = 1
    /\ Len(Response.development_path.high_priority) = 1
    /\ Len(Response.development_path.medium_priority) = 1
    /\ {priority_badge(Response.recommendations[i].current_score) : i \in 1..3}
           = {"CRITICAL", "HIGH", "MEDIUM"}

====
